---- MODULE Spec2Model ----
(***************************************************************************)
(* FAISSManager (src/faiss_vs/src/vectorstore/faiss_manager.py): the index *)
(* primitives, the metadata store, the offset<->chunk_id mappings and the  *)
(* tenant directory of one client.                                         *)
(*                                                                         *)
(* Modelling conventions                                                   *)
(*  - an optional value (Python None / a file that does not exist) is the  *)
(*    empty sequence, a present value x is <<x>>;                          *)
(*  - a FAISS primitive is [d |-> dimension, vecs |-> sequence of stored   *)
(*    vectors]; the FAISS offset i is position i+1 of vecs;                *)
(*  - an absent offset inside a record (Python None in 'visual_id') is     *)
(*    NoId;                                                                *)
(*  - a vector is [d |-> its length, x |-> an integer standing for its     *)
(*    direction]; IndexFlatIP's similarity of two normalised vectors is 3  *)
(*    for equal directions and 1 otherwise;                                *)
(*  - scores of search_multimodal are scaled by WDen (text_weight = w/WDen)*)
(***************************************************************************)
EXTENDS Integers, Sequences, FiniteSets, TLC

\* ------------------------------------------------------------------ bounds
MaxVectors == 2          \* an add is not started on a primitive holding this many vectors
MaxK == 2                \* largest k passed to a search
MaxOps == 6              \* calls made on the tenant in one run of Spec
MaxRequests == 3         \* calls made through a DocumentProcessor in one run
MaxReranks == 2          \* rerank_results calls made over one list of hit objects
MaxGets == 3             \* get_assistant calls made on the AssistantManager in one run
MaxTime == 3             \* minutes the clock of the AssistantManager advances
WDen == 2                \* text_weight ranges over 0/WDen .. WDen/WDen

\* ------------------------------------------------------- program constants
EMBEDDING_DIMENSION == 1024
VISUAL_EMBEDDING_DIMENSION == 512
ENABLE_VISUAL_SEARCH_BY_DEFAULT == FALSE

\* -------------------------------------------------------------- universes
ChunkIds == {"a", "b"}
NoId == -1
None == <<>>
Some(x) == <<x>>
Val(o) == o[1]

\* TextChunk: chunk_id determines text and source_file
ChunkText(c) == IF c = "a" THEN 1 ELSE 2
ChunkSource(c) == IF c = "a" THEN "f1" ELSE "f2"

TextQueries == {1, 2}
\* image vectors handed to add_multimodal_chunk: one of the visual dimension, one not
VisualVectors == {[d |-> VISUAL_EMBEDDING_DIMENSION, x |-> 1],
                  [d |-> EMBEDDING_DIMENSION, x |-> 1]}
Thresholds == {0, 2}

\* ------------------------------------------------------- generic helpers
Put(f, k, v) == [x \in (DOMAIN f) \cup {k} |-> IF x = k THEN v ELSE f[x]]
Del(f, k) == [x \in (DOMAIN f) \ {k} |-> f[x]]
EmptyMap == <<>>
Min(a, b) == IF a < b THEN a ELSE b

\* create_embeddings: the sentence embedding of a text, of the model's dimension
create_embeddings(text) == [d |-> EMBEDDING_DIMENSION, x |-> text]

\* faiss.IndexFlatIP(d)
NewPrimitive(d) == [d |-> d, vecs |-> <<>>]
ntotal(p) == Len(p.vecs)
\* the offset index.add gives the next vector: index.ntotal read before the add
NextOffset_afterAdd(p) == Len(p.vecs) + 1
NextOffset(p) == Len(p.vecs)
\* index.add(v): allowed only for a vector of the primitive's dimension
CanAdd(p, v) == v.d = p.d
IndexAdd(p, v) == [p EXCEPT !.vecs = Append(@, v.x)]
\* inner-product similarity of normalised vectors: largest for equal directions
Score(q, x) == IF q = x THEN 3 ELSE 1

VARIABLES
  enable_visual_search,   \* mode of the manager
  index,                  \* optional legacy primitive
  text_index,             \* optional text primitive
  visual_index,           \* optional visual primitive
  metadata,               \* chunk_id -> metadata record
  id_to_chunk_id,         \* legacy offset -> chunk_id
  chunk_id_to_id,         \* legacy chunk_id -> offset
  text_id_to_chunk_id,    \* text offset -> chunk_id
  visual_id_to_chunk_id,  \* visual offset -> chunk_id
  chunk_id_to_ids,        \* chunk_id -> [text_id, visual_id]
  disk,                   \* the tenant directory: file name -> optional content
  res,                    \* the last call: [op, out, ...]
  intact,                 \* history: no file of a completed save was lost
  ops,                    \* history: number of calls made so far
  dp_enable_visual_search, \* DocumentProcessor.enable_visual_search of the owner
  reqs,                   \* concurrent requests: request -> [pc, op, chunk, s]
  search_config,          \* RelevanceImprover.config: the SearchConfig of the reranker
  all_results,            \* the list of hit objects a caller of the reranker holds
  assistants_cache,       \* AssistantManager: client_id -> cache entry
  max_assistants,         \* AssistantManager.max_assistants
  cache_ttl_minutes,      \* AssistantManager.cache_ttl_minutes
  lock,                   \* AssistantManager.lock: 0 when free, else the thread holding it
  now,                    \* datetime.now(), in minutes
  calls                   \* thread -> its stack of calls into the AssistantManager

mem == <<enable_visual_search, index, text_index, visual_index, metadata,
         id_to_chunk_id, chunk_id_to_id, text_id_to_chunk_id,
         visual_id_to_chunk_id, chunk_id_to_ids>>
\* what belongs to the callers of the manager
rerank == <<search_config, all_results>>
cache == <<assistants_cache, max_assistants, cache_ttl_minutes, lock, now, calls>>
layers == <<rerank, cache>>
proc == <<dp_enable_visual_search, reqs, layers>>
vars == <<enable_visual_search, index, text_index, visual_index, metadata,
          id_to_chunk_id, chunk_id_to_id, text_id_to_chunk_id,
          visual_id_to_chunk_id, chunk_id_to_ids, disk, res, intact, ops,
          dp_enable_visual_search, reqs, search_config, all_results,
          assistants_cache, max_assistants, cache_ttl_minutes, lock, now, calls>>

\* the manager's fields as one record, so that methods compose
Mem == [enable_visual_search |-> enable_visual_search, index |-> index,
        text_index |-> text_index, visual_index |-> visual_index,
        metadata |-> metadata, id_to_chunk_id |-> id_to_chunk_id,
        chunk_id_to_id |-> chunk_id_to_id,
        text_id_to_chunk_id |-> text_id_to_chunk_id,
        visual_id_to_chunk_id |-> visual_id_to_chunk_id,
        chunk_id_to_ids |-> chunk_id_to_ids]

SetMem(s) ==
  /\ enable_visual_search' = s.enable_visual_search
  /\ index' = s.index
  /\ text_index' = s.text_index
  /\ visual_index' = s.visual_index
  /\ metadata' = s.metadata
  /\ id_to_chunk_id' = s.id_to_chunk_id
  /\ chunk_id_to_id' = s.chunk_id_to_id
  /\ text_id_to_chunk_id' = s.text_id_to_chunk_id
  /\ visual_id_to_chunk_id' = s.visual_id_to_chunk_id
  /\ chunk_id_to_ids' = s.chunk_id_to_ids

EmptyDisk == [index_faiss |-> None, text_index_faiss |-> None,
              visual_index_faiss |-> None, metadata_pkl |-> None,
              mappings_json |-> None, config_json |-> None,
              unreadable |-> {}]

\* FAISSManager.__init__ : the fields of a freshly constructed manager
Constructed(mode) ==
  [enable_visual_search |-> mode, index |-> None, text_index |-> None,
   visual_index |-> None, metadata |-> EmptyMap, id_to_chunk_id |-> EmptyMap,
   chunk_id_to_id |-> EmptyMap, text_id_to_chunk_id |-> EmptyMap,
   visual_id_to_chunk_id |-> EmptyMap, chunk_id_to_ids |-> EmptyMap]

\* two requests of one tenant served at the same time, each with its own manager
Requests == {1, 2}
Idle == [pc |-> "idle", op |-> "none", chunk |-> "a", s |-> Constructed(FALSE)]

\* create_index(force_recreate = False)
create_index(s) ==
  IF ~s.enable_visual_search /\ s.index # None THEN s
  ELSE IF s.enable_visual_search
          /\ (s.text_index # None \/ s.visual_index # None) THEN s
  ELSE IF s.enable_visual_search
       THEN [s EXCEPT !.text_index = Some(NewPrimitive(EMBEDDING_DIMENSION)),
                      !.visual_index = Some(NewPrimitive(VISUAL_EMBEDDING_DIMENSION)),
                      !.text_id_to_chunk_id = EmptyMap,
                      !.visual_id_to_chunk_id = EmptyMap,
                      !.chunk_id_to_ids = EmptyMap,
                      !.metadata = EmptyMap]
       ELSE [s EXCEPT !.index = Some(NewPrimitive(EMBEDDING_DIMENSION)),
                      !.id_to_chunk_id = EmptyMap,
                      !.chunk_id_to_id = EmptyMap,
                      !.metadata = EmptyMap]

\* the metadata record stored for a chunk (an absent key is NoId)
LegacyMeta(c, faiss_id) ==
  [text |-> ChunkText(c), source_file |-> ChunkSource(c), faiss_id |-> faiss_id,
   text_faiss_id |-> NoId, visual_faiss_id |-> NoId, has_visual_vector |-> FALSE]
MultiMeta(c, text_faiss_id, visual_faiss_id, has_visual) ==
  [text |-> ChunkText(c), source_file |-> ChunkSource(c), faiss_id |-> NoId,
   text_faiss_id |-> text_faiss_id, visual_faiss_id |-> visual_faiss_id,
   has_visual_vector |-> has_visual]

\* _add_chunks_legacy, the loop over enumerate(chunks) after index.add(embeddings)
RECURSIVE LegacyRecord(_, _, _, _)
LegacyRecord(s, chunks, i, start_id) ==
  IF i > Len(chunks) THEN s
  ELSE LET c == chunks[i]
           faiss_id == start_id + (i - 1)
       IN LegacyRecord([s EXCEPT !.metadata = Put(@, c, LegacyMeta(c, faiss_id)),
                                 !.id_to_chunk_id = Put(@, faiss_id, c),
                                 !.chunk_id_to_id = Put(@, c, faiss_id)],
                       chunks, i + 1, start_id)

RECURSIVE AddAll(_, _, _)
AddAll(p, chunks, i) ==
  IF i > Len(chunks) THEN p
  ELSE AddAll(IndexAdd(p, create_embeddings(ChunkText(chunks[i]))), chunks, i + 1)

\* _add_chunks_legacy(chunks): [s |-> manager afterwards, out |-> added ids]
add_chunks_legacy(s0, chunks) ==
  LET s1 == IF s0.index = None THEN create_index(s0) ELSE s0
  IN IF chunks = <<>> THEN [s |-> s1, raised |-> FALSE, out |-> <<>>]
     ELSE LET start_id == NextOffset(Val(s1.index))
              s2 == [s1 EXCEPT !.index = Some(AddAll(Val(s1.index), chunks, 1))]
          IN [s |-> LegacyRecord(s2, chunks, 1, start_id), raised |-> FALSE,
              out |-> [i \in 1..Len(chunks) |-> start_id + (i - 1)]]

\* add_text_chunk(chunk): out is the text offset; raised when an exception escapes
add_text_chunk(s0, c) ==
  IF ~s0.enable_visual_search
  THEN LET r == add_chunks_legacy(s0, <<c>>)
       IN [s |-> r.s, raised |-> FALSE, out |-> r.out[1]]
  ELSE LET s1 == IF s0.text_index = None THEN create_index(s0) ELSE s0
       IN IF s1.text_index = None THEN [s |-> s1, raised |-> TRUE, out |-> NoId]
          ELSE LET text_faiss_id == NextOffset(Val(s1.text_index))
                   ti == IndexAdd(Val(s1.text_index), create_embeddings(ChunkText(c)))
               IN [s |-> [s1 EXCEPT
                            !.text_index = Some(ti),
                            !.metadata = Put(@, c, MultiMeta(c, text_faiss_id, NoId, FALSE)),
                            !.text_id_to_chunk_id = Put(@, text_faiss_id, c),
                            !.chunk_id_to_ids = Put(@, c, [text_id |-> text_faiss_id,
                                                           visual_id |-> NoId])],
                   raised |-> FALSE, out |-> text_faiss_id]

\* add_chunks(chunks) in multimodal mode: add_text_chunk for each chunk in turn
RECURSIVE AddTextAll(_, _, _, _)
AddTextAll(s, chunks, i, ids) ==
  IF i > Len(chunks) THEN [s |-> s, raised |-> FALSE, out |-> ids]
  ELSE LET r == add_text_chunk(s, chunks[i])
       IN IF r.raised THEN [s |-> r.s, raised |-> TRUE, out |-> <<>>]
          ELSE AddTextAll(r.s, chunks, i + 1, Append(ids, r.out))

\* add_chunks(chunks)
add_chunks(s, chunks) ==
  IF ~s.enable_visual_search THEN add_chunks_legacy(s, chunks)
  ELSE AddTextAll(s, chunks, 1, <<>>)

\* add_multimodal_chunk(chunk, visual_vector): out is <<text id, visual id>>
add_multimodal_chunk(s0, c, visual_vector) ==
  IF ~s0.enable_visual_search THEN [s |-> s0, raised |-> TRUE, out |-> <<>>]
  ELSE
  LET s1 == IF s0.text_index = None \/ s0.visual_index = None
            THEN create_index(s0) ELSE s0
  IN IF s1.text_index = None THEN [s |-> s1, raised |-> TRUE, out |-> <<>>]
     ELSE
     LET text_faiss_id == NextOffset(Val(s1.text_index))
         s2 == [s1 EXCEPT !.text_index =
                   Some(IndexAdd(Val(@), create_embeddings(ChunkText(c))))]
     IN IF s2.visual_index = None \/ ~CanAdd(Val(s2.visual_index), visual_vector)
        THEN [s |-> s2, raised |-> TRUE, out |-> <<>>]
        ELSE
        LET visual_faiss_id == NextOffset(Val(s2.visual_index))
        IN [s |-> [s2 EXCEPT
                     !.visual_index = Some(IndexAdd(Val(@), visual_vector)),
                     !.metadata = Put(@, c, MultiMeta(c, text_faiss_id, visual_faiss_id, TRUE)),
                     !.text_id_to_chunk_id = Put(@, text_faiss_id, c),
                     !.visual_id_to_chunk_id = Put(@, visual_faiss_id, c),
                     !.chunk_id_to_ids = Put(@, c, [text_id |-> text_faiss_id,
                                                    visual_id |-> visual_faiss_id])],
            raised |-> FALSE, out |-> <<text_faiss_id, visual_faiss_id>>]

\* a removal that drops the offset mappings of a chunk and keeps its metadata record
RemoveOne_mappingsOnly(s, c) ==
  IF c \notin DOMAIN s.metadata THEN s
  ELSE IF s.enable_visual_search
       THEN [s EXCEPT
               !.text_id_to_chunk_id =
                  [o \in {x \in DOMAIN @ : @[x] # c} |-> @[o]],
               !.visual_id_to_chunk_id =
                  [o \in {x \in DOMAIN @ : @[x] # c} |-> @[o]],
               !.chunk_id_to_ids = Del(@, c)]
       ELSE [s EXCEPT !.id_to_chunk_id = [o \in {x \in DOMAIN @ : @[x] # c} |-> @[o]],
                      !.chunk_id_to_id = Del(@, c)]
\* remove_chunks, the body of the loop for one chunk_id
RemoveOne(s, c) ==
  IF c \notin DOMAIN s.metadata THEN s
  ELSE LET s1 == [s EXCEPT !.metadata = Del(@, c)]
       IN IF s1.enable_visual_search
          THEN IF c \in DOMAIN s1.chunk_id_to_ids
               THEN LET ids_info == s1.chunk_id_to_ids[c]
                    IN [s1 EXCEPT
                          !.text_id_to_chunk_id =
                             IF ids_info.text_id # NoId THEN Del(@, ids_info.text_id) ELSE @,
                          !.visual_id_to_chunk_id =
                             IF ids_info.visual_id # NoId THEN Del(@, ids_info.visual_id) ELSE @,
                          !.chunk_id_to_ids = Del(@, c)]
               ELSE s1
          ELSE IF c \in DOMAIN s1.chunk_id_to_id
               THEN [s1 EXCEPT !.id_to_chunk_id = Del(@, s1.chunk_id_to_id[c]),
                               !.chunk_id_to_id = Del(@, c)]
               ELSE s1

RECURSIVE RemoveLoop_alwaysTrue(_, _, _, _)
RemoveLoop_alwaysTrue(s, chunk_ids, i, removed_count) ==
  IF i > Len(chunk_ids) THEN [s |-> s, raised |-> FALSE, out |-> TRUE]
  ELSE RemoveLoop_alwaysTrue(RemoveOne(s, chunk_ids[i]), chunk_ids, i + 1, removed_count)
RECURSIVE RemoveLoop(_, _, _, _)
RemoveLoop(s, chunk_ids, i, removed_count) ==
  IF i > Len(chunk_ids) THEN [s |-> s, raised |-> FALSE, out |-> removed_count > 0]
  ELSE LET c == chunk_ids[i]
       IN RemoveLoop(RemoveOne(s, c), chunk_ids, i + 1,
                     IF c \in DOMAIN s.metadata THEN removed_count + 1 ELSE removed_count)

\* remove_chunks(chunk_ids)
remove_chunks(s, chunk_ids) == RemoveLoop(s, chunk_ids, 1, 0)

\* clear_index()
clear_index(s) == [Constructed(s.enable_visual_search) EXCEPT !.enable_visual_search = s.enable_visual_search]

\* get_all_chunks / get_chunks_by_source: the metadata values (as a set of chunk ids' records)
get_all_chunks(s) == {s.metadata[c] : c \in DOMAIN s.metadata}
get_chunks_by_source(s, source_file) ==
  {s.metadata[c] : c \in {x \in DOMAIN s.metadata : s.metadata[x].source_file = source_file}}

\* ------------------------------------------------------------------ search
\* is offset i a better hit than offset j for query q (ties: lower offset first)
Better_ascending(p, q, i, j) ==
  \/ Score(q, p.vecs[i + 1]) < Score(q, p.vecs[j + 1])
  \/ Score(q, p.vecs[i + 1]) = Score(q, p.vecs[j + 1]) /\ i <= j
Better(p, q, i, j) ==
  \/ Score(q, p.vecs[i + 1]) > Score(q, p.vecs[j + 1])
  \/ Score(q, p.vecs[i + 1]) = Score(q, p.vecs[j + 1]) /\ i <= j

\* index.search(query, k): k pairs (score, idx) by descending score, padded with idx = -1
RECURSIVE TopK(_, _, _, _)
TopK(p, q, rest, k) ==
  IF k = 0 THEN <<>>
  ELSE IF rest = {} THEN <<[score |-> 0, idx |-> -1]>> \o TopK(p, q, rest, k - 1)
  ELSE LET i == CHOOSE x \in rest : \A y \in rest : Better(p, q, x, y)
       IN <<[score |-> Score(q, p.vecs[i + 1]), idx |-> i]>> \o TopK(p, q, rest \ {i}, k - 1)
IndexSearch(p, q, k) == TopK(p, q, 0..(ntotal(p) - 1), k)

\* the loop shared by _search_legacy and _format_search_results
RECURSIVE FormatHits(_, _, _, _, _, _)
FormatHits(s, hits, i, id_mapping, search_type, score_threshold) ==
  IF i > Len(hits) THEN <<>>
  ELSE LET h == hits[i]
           rest == FormatHits(s, hits, i + 1, id_mapping, search_type, score_threshold)
       IN IF h.idx = -1 \/ h.score < score_threshold THEN rest
          ELSE IF h.idx \in DOMAIN id_mapping /\ id_mapping[h.idx] \in DOMAIN s.metadata
               THEN <<[chunk_id |-> id_mapping[h.idx], score |-> h.score,
                       search_type |-> search_type]>> \o rest
               ELSE rest

\* _format_search_results(scores, indices, search_type, score_threshold)
format_search_results(s, hits, search_type, score_threshold) ==
  FormatHits(s, hits, 1,
             IF search_type = "text" THEN s.text_id_to_chunk_id
             ELSE IF search_type = "visual" THEN s.visual_id_to_chunk_id
             ELSE s.id_to_chunk_id,
             search_type, score_threshold)

\* _search_legacy(query, k, score_threshold)
search_legacy(s, query, k, score_threshold) ==
  IF s.index = None \/ ntotal(Val(s.index)) = 0 THEN <<>>
  ELSE FormatHits(s, IndexSearch(Val(s.index), create_embeddings(query).x, k), 1,
                  s.id_to_chunk_id, "legacy", score_threshold)

\* search_text(query, k, score_threshold)
search_text(s, query, k, score_threshold) ==
  IF ~s.enable_visual_search \/ s.text_index = None \/ ntotal(Val(s.text_index)) = 0
  THEN <<>>
  ELSE format_search_results(s, IndexSearch(Val(s.text_index), create_embeddings(query).x, k),
                             "text", score_threshold)

\* search_visual(visual_query, k, score_threshold)
search_visual(s, visual_query, k, score_threshold) ==
  IF ~s.enable_visual_search \/ s.visual_index = None \/ ntotal(Val(s.visual_index)) = 0
  THEN <<>>
  ELSE format_search_results(s, IndexSearch(Val(s.visual_index), visual_query.x, k),
                             "visual", score_threshold)

\* search(query, k, score_threshold)
search(s, query, k, score_threshold) ==
  IF ~s.enable_visual_search THEN search_legacy(s, query, k, score_threshold)
  ELSE search_text(s, query, k, score_threshold)

\* chunk ids of a hit list
HitIds(hits) == {hits[i].chunk_id : i \in DOMAIN hits}
\* the score the loop over a hit list leaves in all_results[c][...]: the last hit of c
LastHit(hits, c) == hits[CHOOSE i \in DOMAIN hits :
                           /\ hits[i].chunk_id = c
                           /\ \A j \in DOMAIN hits : hits[j].chunk_id = c => j <= i]
FirstHit(hits, c) == hits[CHOOSE i \in DOMAIN hits :
                            /\ hits[i].chunk_id = c
                            /\ \A j \in DOMAIN hits : hits[j].chunk_id = c => i <= j]
\* keys of all_results in insertion order
RECURSIVE KeyOrder(_, _, _)
KeyOrder(hits, i, seen) ==
  IF i > Len(hits) THEN <<>>
  ELSE IF hits[i].chunk_id \in seen THEN KeyOrder(hits, i + 1, seen)
  ELSE <<hits[i].chunk_id>> \o KeyOrder(hits, i + 1, seen \cup {hits[i].chunk_id})

\* the combined score of search_multimodal, times WDen (text_weight = w / WDen)
combined_score_unweighted(in_text, in_visual, text_score, visual_score, w) ==
  IF in_text /\ in_visual THEN w * text_score + (WDen - w) * visual_score
  ELSE IF in_text THEN text_score * WDen
  ELSE visual_score * WDen
combined_score(in_text, in_visual, text_score, visual_score, w) ==
  IF in_text /\ in_visual THEN w * text_score + (WDen - w) * visual_score
  ELSE IF in_text THEN text_score * w
  ELSE visual_score * (WDen - w)

\* list.sort(key = combined_score, reverse = True): stable
RECURSIVE InsertByScore_ascending(_, _)
InsertByScore_ascending(sorted, r) ==
  IF sorted = <<>> THEN <<r>>
  ELSE IF Head(sorted).combined_score <= r.combined_score
       THEN <<Head(sorted)>> \o InsertByScore_ascending(Tail(sorted), r)
       ELSE <<r>> \o sorted
RECURSIVE InsertByScore(_, _)
InsertByScore(sorted, r) ==
  IF sorted = <<>> THEN <<r>>
  ELSE IF Head(sorted).combined_score >= r.combined_score
       THEN <<Head(sorted)>> \o InsertByScore(Tail(sorted), r)
       ELSE <<r>> \o sorted
RECURSIVE SortByScore(_, _, _)
SortByScore(rs, i, acc) ==
  IF i > Len(rs) THEN acc ELSE SortByScore(rs, i + 1, InsertByScore(acc, rs[i]))

\* search_multimodal(text_query, visual_query, k, text_weight); queries are optional
search_multimodal(s, text_query, visual_query, k, w) ==
  IF ~s.enable_visual_search
  THEN (IF text_query # None THEN search_text(s, Val(text_query), k, 0) ELSE <<>>)
  ELSE
  LET text_results == IF text_query # None
                      THEN search_text(s, Val(text_query), k * 2, 0) ELSE <<>>
      visual_results == IF visual_query # None
                        THEN search_visual(s, Val(visual_query), k * 2, 0) ELSE <<>>
      keys == KeyOrder(text_results \o visual_results, 1, {})
      Combined(c) ==
        LET in_text == c \in HitIds(text_results)
            in_visual == c \in HitIds(visual_results)
            text_score == IF in_text THEN LastHit(text_results, c).score ELSE 0
            visual_score == IF in_visual THEN LastHit(visual_results, c).score ELSE 0
            result_data == IF in_text THEN LastHit(text_results, c)
                           ELSE FirstHit(visual_results, c)
        IN [chunk_id |-> c, score |-> result_data.score,
            combined_score |-> combined_score(in_text, in_visual, text_score, visual_score, w),
            search_type |-> IF in_text /\ in_visual THEN "multimodal"
                            ELSE IF in_text THEN "text_only" ELSE "visual_only",
            text_score |-> text_score, visual_score |-> visual_score]
      combined_results == [i \in 1..Len(keys) |-> Combined(keys[i])]
  IN SubSeq(SortByScore(combined_results, 1, <<>>), 1, Min(k, Len(keys)))

\* ------------------------------------------------------------- persistence
\* str(k) of json.dump and int(k) of load_index
Str(k) == <<"str", k>>
ParseInt(t) == t[2]
StrKeys(f) == [t \in {Str(k) : k \in DOMAIN f} |-> f[ParseInt(t)]]
IntKeys(f) == [k \in {ParseInt(t) : t \in DOMAIN f} |-> f[Str(k)]]
\* dict.get(key, {})
Get(obj, key) == IF key \in DOMAIN obj THEN obj[key] ELSE EmptyMap

\* _get_total_vectors
get_total_vectors(s) ==
  IF s.enable_visual_search
  THEN (IF s.text_index # None THEN ntotal(Val(s.text_index)) ELSE 0)
       + (IF s.visual_index # None THEN ntotal(Val(s.visual_index)) ELSE 0)
  ELSE (IF s.index # None THEN ntotal(Val(s.index)) ELSE 0)

\* save_index, the mappings_data object written to mappings.json
mappings_data_noVisual(s) ==
  IF s.enable_visual_search
  THEN [text_id_to_chunk_id |-> StrKeys(s.text_id_to_chunk_id),
        chunk_id_to_ids |-> s.chunk_id_to_ids]
  ELSE [id_to_chunk_id |-> StrKeys(s.id_to_chunk_id),
        chunk_id_to_id |-> s.chunk_id_to_id]
mappings_data(s) ==
  IF s.enable_visual_search
  THEN [text_id_to_chunk_id |-> StrKeys(s.text_id_to_chunk_id),
        visual_id_to_chunk_id |-> StrKeys(s.visual_id_to_chunk_id),
        chunk_id_to_ids |-> s.chunk_id_to_ids]
  ELSE [id_to_chunk_id |-> StrKeys(s.id_to_chunk_id),
        chunk_id_to_id |-> s.chunk_id_to_id]

\* the files save_index writes, in the order it writes them
SaveOrder(s) ==
  (IF s.enable_visual_search
   THEN (IF s.text_index # None THEN <<"text_index_faiss">> ELSE <<>>)
        \o (IF s.visual_index # None THEN <<"visual_index_faiss">> ELSE <<>>)
   ELSE (IF s.index # None THEN <<"index_faiss">> ELSE <<>>))
  \o <<"metadata_pkl", "mappings_json", "config_json">>
Range(seq) == {seq[i] : i \in DOMAIN seq}

\* save_index(): the tenant directory after the call
save_index(s, d) ==
  [d EXCEPT
     !.text_index_faiss = IF s.enable_visual_search /\ s.text_index # None
                          THEN s.text_index ELSE @,
     !.visual_index_faiss = IF s.enable_visual_search /\ s.visual_index # None
                            THEN s.visual_index ELSE @,
     !.index_faiss = IF ~s.enable_visual_search /\ s.index # None THEN s.index ELSE @,
     !.metadata_pkl = Some(s.metadata),
     !.mappings_json = Some(mappings_data(s)),
     !.config_json =
        Some([enable_visual_search |-> s.enable_visual_search,
              total_vectors |-> get_total_vectors(s),
              text_vectors |-> IF s.text_index # None THEN ntotal(Val(s.text_index)) ELSE 0,
              visual_vectors |-> IF s.visual_index # None
                                 THEN ntotal(Val(s.visual_index)) ELSE 0]),
     !.unreadable = @ \ Range(SaveOrder(s))]

\* save_index() that stops after n complete writes: an error raised by a write, or
\* the process ending; torn: the write it stopped in left a file that cannot be read
save_index_interrupted(s, d, n, torn) ==
  LET full == save_index(s, d)
      order == SaveOrder(s)
      done == {order[i] : i \in 1..n}
  IN [f \in DOMAIN d |->
        IF f = "unreadable"
        THEN (d.unreadable \ done) \cup (IF torn THEN {order[n + 1]} ELSE {})
        ELSE IF f \in done \/ (torn /\ f = order[n + 1]) THEN full[f]
        ELSE d[f]]

\* the files load_index reads, in the order it reads them
ReadOrder(mode) ==
  IF mode
  THEN <<"config_json", "text_index_faiss", "visual_index_faiss", "metadata_pkl",
         "mappings_json">>
  ELSE <<"config_json", "index_faiss", "metadata_pkl", "mappings_json">>

\* load_index(): [s |-> manager afterwards, out |-> the boolean returned]; reading a
\* file that exists but cannot be read raises, and the except clause returns False
load_index(s, d) ==
  IF d.metadata_pkl = None \/ d.mappings_json = None \/ d.config_json = None
  THEN [s |-> s, raised |-> FALSE, out |-> FALSE]
  ELSE
  LET config == Val(d.config_json)
      mode == IF "config_json" \in d.unreadable THEN s.enable_visual_search
              ELSE config.enable_visual_search
      order == ReadOrder(mode)
      bad == {i \in DOMAIN order : d[order[i]] # None /\ order[i] \in d.unreadable}
      first == IF bad = {} THEN Len(order) + 1
               ELSE CHOOSE i \in bad : \A j \in bad : i <= j
      Read(f) == \E i \in DOMAIN order : order[i] = f /\ i < first
      loaded == Val(d.mappings_json)
      meta == Read("metadata_pkl")
      maps == Read("mappings_json")
  IN [s |-> [s EXCEPT
        !.enable_visual_search = mode,
        !.text_index = IF mode /\ d.text_index_faiss # None /\ Read("text_index_faiss")
                       THEN d.text_index_faiss ELSE @,
        !.visual_index = IF mode /\ d.visual_index_faiss # None
                            /\ Read("visual_index_faiss")
                         THEN d.visual_index_faiss ELSE @,
        !.index = IF ~mode /\ d.index_faiss # None /\ Read("index_faiss")
                  THEN d.index_faiss ELSE @,
        !.metadata = IF meta THEN Val(d.metadata_pkl) ELSE @,
        !.text_id_to_chunk_id =
           IF mode /\ maps THEN IntKeys(Get(loaded, "text_id_to_chunk_id")) ELSE @,
        !.visual_id_to_chunk_id =
           IF mode /\ maps THEN IntKeys(Get(loaded, "visual_id_to_chunk_id")) ELSE @,
        !.chunk_id_to_ids = IF mode /\ maps THEN Get(loaded, "chunk_id_to_ids") ELSE @,
        !.id_to_chunk_id =
           IF ~mode /\ maps THEN IntKeys(Get(loaded, "id_to_chunk_id")) ELSE @,
        !.chunk_id_to_id = IF ~mode /\ maps THEN Get(loaded, "chunk_id_to_id") ELSE @],
      raised |-> FALSE, out |-> bad = {}]

\* ---------------------------------------------------------------- inputs
\* chunk lists passed to add_chunks / remove_chunks
ChunkLists == {<<>>, <<"a">>, <<"b">>, <<"a", "b">>}
VisualQueries == {[d |-> VISUAL_EMBEDDING_DIMENSION, x |-> 1],
                  [d |-> VISUAL_EMBEDDING_DIMENSION, x |-> 2]}
\* the optional queries of search_multimodal
OptTextQueries == {None} \cup {Some(q) : q \in TextQueries}
OptVisualQueries == {None, Some([d |-> VISUAL_EMBEDDING_DIMENSION, x |-> 2])}
SourceFiles == {ChunkSource(c) : c \in ChunkIds}
IndexFiles == {"index_faiss", "text_index_faiss", "visual_index_faiss"}

\* vectors a call would append to the primitive holding the text vectors
TextTotal(s) ==
  IF s.enable_visual_search
  THEN (IF s.text_index = None THEN 0 ELSE ntotal(Val(s.text_index)))
  ELSE (IF s.index = None THEN 0 ELSE ntotal(Val(s.index)))

\* ------------------------------------------------------ document processor
\* keys and values of the metadata a chunk carries (TextChunk.metadata)
FilterKeys == <<"category", "kind">>
MetaValues == {"A", "B"}
ChunkMetadata(c) == IF c = "a" THEN [category |-> "A", kind |-> "B"]
                    ELSE [category |-> "B"]
\* 'metadata': self.metadata[chunk_id]['metadata'] of a formatted hit
WithMetadata(hits) ==
  [i \in DOMAIN hits |-> [chunk_id |-> hits[i].chunk_id, score |-> hits[i].score,
                          metadata |-> ChunkMetadata(hits[i].chunk_id)]]
\* a filter value: a scalar (values holds it alone) or a list of values
Scalar(v) == [list |-> FALSE, values |-> {v}]
List(vs) == [list |-> TRUE, values |-> vs]

\* _apply_filters, the inner loop over filters.items() with its breaks
RECURSIVE should_include_missingKept(_, _, _)
should_include_missingKept(md, filters, i) ==
  IF i > Len(FilterKeys) THEN TRUE
  ELSE LET filter_key == FilterKeys[i]
       IN IF filter_key \notin DOMAIN filters \/ filter_key \notin DOMAIN md
          THEN should_include_missingKept(md, filters, i + 1)
          ELSE IF md[filter_key] \notin filters[filter_key].values THEN FALSE
          ELSE should_include_missingKept(md, filters, i + 1)
RECURSIVE should_include(_, _, _)
should_include(md, filters, i) ==
  IF i > Len(FilterKeys) THEN TRUE
  ELSE LET filter_key == FilterKeys[i]
       IN IF filter_key \notin DOMAIN filters THEN should_include(md, filters, i + 1)
          ELSE IF filter_key \notin DOMAIN md THEN FALSE
          ELSE LET filter_value == filters[filter_key]
               IN IF filter_value.list
                  THEN (IF md[filter_key] \notin filter_value.values THEN FALSE
                        ELSE should_include(md, filters, i + 1))
                  ELSE (IF md[filter_key] # (CHOOSE v \in filter_value.values : TRUE)
                        THEN FALSE
                        ELSE should_include(md, filters, i + 1))
\* _apply_filters(results, filters), the outer loop
RECURSIVE apply_filters(_, _, _)
apply_filters(results, filters, i) ==
  IF i > Len(results) THEN <<>>
  ELSE (IF should_include(results[i].metadata, filters, 1) THEN <<results[i]>> ELSE <<>>)
       \o apply_filters(results, filters, i + 1)

\* MultiModalProcessor.search_by_text_description: the CLIP text embedding of a query
clip_text_embedding(text) == [d |-> VISUAL_EMBEDDING_DIMENSION, x |-> text]
\* DocumentProcessor.search_by_text_description(text, k, search_images_only = False)
\* called by a processor in visual mode
search_by_text_description(s, text_description, k) ==
  WithMetadata(search_visual(s, clip_text_embedding(text_description), k * 2, 0))

\* DocumentProcessor.search_documents(query, k, min_score, filters, search_mode)
search_documents(s, dp_mode, query, k, min_score, filters, search_mode) ==
  IF query = None THEN <<>>
  ELSE
  LET mode == IF search_mode = "auto" THEN "text" ELSE search_mode
      results ==
        IF mode = "text" THEN WithMetadata(search(s, Val(query), k * 2, min_score))
        ELSE IF mode = "visual_description" /\ dp_mode
             THEN search_by_text_description(s, Val(query), k * 2)
             ELSE WithMetadata(search(s, Val(query), k * 2, min_score))
      filtered == IF filters # EmptyMap THEN apply_filters(results, filters, 1)
                  ELSE results
  IN SubSeq(filtered, 1, Min(k, Len(filtered)))

\* DocumentProcessor.__init__(client_id, enable_visual_search): the mode it keeps
\* (text mode when MultiModalProcessor cannot be built) and its manager after
\* create_faiss_manager and load_index
processor_mode(requested, clip_available) == requested /\ clip_available
new_processor(requested, clip_available, d) ==
  load_index(Constructed(processor_mode(requested, clip_available)), d)

\* a set of metadata records as a list, in some order
RECURSIVE AsList(_)
AsList(set) ==
  IF set = {} THEN <<>>
  ELSE LET x == CHOOSE y \in set : TRUE IN <<x>> \o AsList(set \ {x})
\* [chunk.get('chunk_id') for chunk in chunks if chunk.get('chunk_id')]
RECURSIVE chunk_ids_of(_, _)
chunk_ids_of(chunks, i) ==
  IF i > Len(chunks) THEN <<>>
  ELSE (IF "chunk_id" \in DOMAIN chunks[i] THEN <<chunks[i].chunk_id>> ELSE <<>>)
       \o chunk_ids_of(chunks, i + 1)

\* DocumentProcessor.remove_document(source_file): [s, d |-> directory, out]
remove_document(s, d, source_file) ==
  LET chunks == AsList(get_chunks_by_source(s, source_file))
  IN IF chunks # <<>>
     THEN LET chunk_ids == chunk_ids_of(chunks, 1)
              r == remove_chunks(s, chunk_ids)
          IN [s |-> r.s, d |-> IF r.out THEN save_index(r.s, d) ELSE d,
              raised |-> FALSE, out |-> r.out]
     ELSE [s |-> s, d |-> d, raised |-> FALSE, out |-> FALSE]

\* process_documents_from_json, the body of the loop for one document: a document is
\* [chunk, visual, parse_fails]; visual is what process_image_multimodal returns
process_document(s, dp_mode, doc, update_existing) ==
  IF ~update_existing /\ get_chunks_by_source(s, ChunkSource(doc.chunk)) # {}
  THEN [s |-> s, outcome |-> "skipped"]
  ELSE IF doc.parse_fails THEN [s |-> s, outcome |-> "error"]
  ELSE LET visual_vector == IF dp_mode THEN doc.visual ELSE None
           r == IF visual_vector # None /\ dp_mode
                THEN add_multimodal_chunk(s, doc.chunk, Val(visual_vector))
                ELSE IF dp_mode THEN add_text_chunk(s, doc.chunk)
                ELSE add_chunks(s, <<doc.chunk>>)
       IN [s |-> r.s, outcome |-> IF r.raised THEN "error" ELSE "indexed"]

\* the loop over documents_info: an exception ends the batch (not what the code does)
RECURSIVE process_loop_abort(_, _, _, _, _, _)
process_loop_abort(s, dp_mode, docs, i, update_existing, outcomes) ==
  IF i > Len(docs) THEN [s |-> s, outcomes |-> outcomes]
  ELSE LET r == process_document(s, dp_mode, docs[i], update_existing)
       IN IF r.outcome = "error" THEN [s |-> r.s, outcomes |-> Append(outcomes, "error")]
          ELSE process_loop_abort(r.s, dp_mode, docs, i + 1, update_existing,
                                  Append(outcomes, r.outcome))
\* the loop over documents_info: an exception is caught per document
RECURSIVE process_loop(_, _, _, _, _, _)
process_loop(s, dp_mode, docs, i, update_existing, outcomes) ==
  IF i > Len(docs) THEN [s |-> s, outcomes |-> outcomes]
  ELSE LET r == process_document(s, dp_mode, docs[i], update_existing)
       IN process_loop(r.s, dp_mode, docs, i + 1, update_existing,
                       Append(outcomes, r.outcome))

\* the end of process_documents_from_json: r is what the loop left; the index is saved
\* if any document gave chunks, and the statistics report success
save_batch(r, d) ==
  LET all_chunks == {i \in DOMAIN r.outcomes : r.outcomes[i] = "indexed"}
  IN [s |-> r.s,
      d |-> IF all_chunks # {} THEN save_index(r.s, d) ELSE d,
      raised |-> FALSE,
      out |-> [success |-> TRUE, outcomes |-> r.outcomes,
               indexed |-> Cardinality(all_chunks)]]

\* process_documents_from_json(json_file_path, update_existing): [s, d, out]
process_documents_from_json(s, d, dp_mode, docs, update_existing) ==
  save_batch(process_loop(s, dp_mode, docs, 1, update_existing, <<>>), d)
\* ------------------------------------------------------------ smart search
\* Scores are integers in units of 1/Unit; the weights and the threshold of a
\* SearchConfig are in tenths. A text (a query, a category, a title) is the set of its
\* words, written in Latin letters; a keyword is contained in it when it is one of
\* them. A file name is [name, words, ext]: the words it contains and its extension.
Unit == 10000

\* SearchConfig(min_score_threshold, semantic_weight, keyword_weight): a dataclass
SearchConfig(min_score_threshold, semantic_weight, keyword_weight) ==
  [min_score_threshold |-> min_score_threshold, category_boost |-> 12, title_boost |-> 13,
   description_boost |-> 11, exact_match_boost |-> 15,
   semantic_weight |-> semantic_weight, keyword_weight |-> keyword_weight]

\* RelevanceImprover.building_synonyms, in the order of the dict
building_synonyms ==
  << [base |-> "okna", synonyms |-> <<"okno", "okonnyj", "osteklenie", "rama", "steklopaket">>],
     [base |-> "dveri", synonyms |-> <<"dver", "dvernoj", "proem", "polotno", "korobka">>],
     [base |-> "specifikaciya",
      synonyms |-> <<"perechen", "spisok", "sostav", "vedomost", "tablica">>],
     [base |-> "fasad", synonyms |-> <<"fasadnyj", "naruzhnyj", "vneshnij", "oblicovka">>],
     [base |-> "geologiya", synonyms |-> <<"geologicheskij", "grunt", "izyskaniya", "pochva">>],
     [base |-> "proekt", synonyms |-> <<"proektnyj", "chertezh", "plan", "skhema">>] >>

\* RelevanceImprover.document_categories
document_categories ==
  [specifications |-> {"specifikaciya", "vedomost", "perechen", "tablica"},
   geology |-> {"geologiya", "izyskaniya", "grunt", "pochva"},
   photos |-> {"foto", "izobrazhenie", "snimok", "img"},
   drawings |-> {"chertezh", "plan", "skhema", "proekt"}]
Categories == <<"specifications", "geology", "photos", "drawings">>

\* expand_query: the queries made from one base word, one per synonym
Replaced(query, base, synonyms) ==
  [i \in DOMAIN synonyms |-> (query \ {base}) \cup {synonyms[i]}]
RECURSIVE expand_from(_, _)
expand_from(query, i) ==
  IF i > Len(building_synonyms) THEN <<>>
  ELSE (IF building_synonyms[i].base \in query
        THEN Replaced(query, building_synonyms[i].base, building_synonyms[i].synonyms)
        ELSE <<>>)
       \o expand_from(query, i + 1)
\* expand_query(query)
expand_query(query) == <<query>> \o expand_from(query, 1)

\* min(score, 2.0)
Capped(score) == IF score < 2 * Unit THEN score ELSE 2 * Unit
\* the contribution of one field: (matches / len(query_words)) * weight, weight in tenths
FieldScore(query_words, field_words, weight) ==
  LET matches == Cardinality(query_words \cap field_words)
  IN IF field_words # {} /\ matches > 0
     THEN (matches * weight * (Unit \div 10)) \div Cardinality(query_words)
     ELSE 0
\* calculate_keyword_relevance(query, result)
calculate_keyword_relevance(cfg, query, result) ==
  Capped(FieldScore(query, result.text, 10)
         + FieldScore(query, result.metadata.description, cfg.description_boost)
         + FieldScore(query, result.metadata.title, cfg.title_boost)
         + FieldScore(query, result.metadata.category, cfg.category_boost)
         + FieldScore(query, {result.source_file.name}, 8))

\* detect_query_intent, the count of one category's keywords found in the query
KeywordCount(query, category) == Cardinality(document_categories[category] \cap query) * Unit
\* detect_query_intent, the scores before they are normalised
RawIntent(query) ==
  [c \in {"specifications", "geology", "photos", "drawings", "general"} |->
     IF c = "general" THEN Unit \div 2 ELSE KeywordCount(query, c)]
MaxOf(f) == CHOOSE m \in {f[c] : c \in DOMAIN f} : \A c \in DOMAIN f : f[c] <= m
\* intent_scores[category] /= max_score
Normalised(raw, max_score) ==
  IF max_score > 0 THEN [c \in DOMAIN raw |-> (raw[c] * Unit) \div max_score] ELSE raw
\* detect_query_intent(query)
detect_query_intent(query) == Normalised(RawIntent(query), MaxOf(RawIntent(query)))

\* any(keyword in category or keyword in filename for keyword in document_categories[c])
AnyKeyword(c, category, filename) ==
  \E keyword \in document_categories[c] : keyword \in category \/ keyword \in filename.words
\* filter_by_intent, the document type of one result
doc_type(result) ==
  IF AnyKeyword("specifications", result.metadata.category, result.source_file)
  THEN "specifications"
  ELSE IF AnyKeyword("geology", result.metadata.category, result.source_file) THEN "geology"
  ELSE IF result.source_file.ext \in {".jpg", ".png", ".jpeg"} THEN "photos"
  ELSE IF AnyKeyword("drawings", result.metadata.category, result.source_file)
  THEN "drawings"
  ELSE "general"
\* filter_by_intent: is the result skipped (continue)
Skipped(result, query_intent) ==
  MaxOf(query_intent) > (8 * Unit) \div 10 /\ query_intent[doc_type(result)] < Unit \div 2
\* filter_by_intent(results, query_intent): the positions of results that are kept;
\* a kept result object gets its intent_score
filter_by_intent(hits, query_intent) ==
  SelectSeq([i \in DOMAIN hits |-> i], LAMBDA i : ~Skipped(hits[i], query_intent))

\* rerank_results, the body of the loop for one filtered result: the object after it
Rescored(cfg, query, result, intent_score) ==
  LET original_score == result.score
      keyword_score == calculate_keyword_relevance(cfg, query, result)
      combined == (original_score * cfg.semantic_weight
                   + keyword_score * cfg.keyword_weight
                   + intent_score * 3) \div 10
  IN [result EXCEPT !.original_score = original_score, !.keyword_score = keyword_score,
                    !.intent_score = intent_score, !.combined_score = combined,
                    !.score = combined]
\* the caller's objects after rerank_results: a kept one is rescored in place
Mutated(cfg, query, hits, kept, query_intent) ==
  [i \in DOMAIN hits |->
     IF \E j \in DOMAIN kept : kept[j] = i
     THEN Rescored(cfg, query, hits[i], query_intent[doc_type(hits[i])])
     ELSE hits[i]]
\* rerank_results, after the loop: sort by combined_score descending, then the threshold
Thresholded(cfg, objects, kept) ==
  SelectSeq(SortByScore([j \in DOMAIN kept |-> objects[kept[j]]], 1, <<>>),
            LAMBDA r : r.combined_score * 10 >= cfg.min_score_threshold * Unit)
RerankWith(cfg, objects, kept) ==
  [objects |-> objects, filtered |-> kept, out |-> Thresholded(cfg, objects, kept)]
RerankKept(cfg, query, hits, kept, query_intent) ==
  RerankWith(cfg, Mutated(cfg, query, hits, kept, query_intent), kept)
RerankIntent(cfg, query, hits, query_intent) ==
  RerankKept(cfg, query, hits, filter_by_intent(hits, query_intent), query_intent)
\* rerank_results(query, results): [objects |-> the caller's list after the call,
\* filtered |-> positions that passed filter_by_intent, out |-> the returned list]
rerank_results(cfg, query, hits) == RerankIntent(cfg, query, hits, detect_query_intent(query))

\* smart_search, the loops over the expanded queries and their results: found[i] is
\* what search_documents returns for the i-th expanded query
RECURSIVE Collect_keepAll(_, _, _)
Collect_keepAll(flat, i, seen_chunks) ==
  IF i > Len(flat) THEN <<>> ELSE <<flat[i]>> \o Collect_keepAll(flat, i + 1, seen_chunks)
RECURSIVE Collect(_, _, _)
Collect(flat, i, seen_chunks) ==
  IF i > Len(flat) THEN <<>>
  ELSE IF flat[i].chunk_id \notin seen_chunks
       THEN <<flat[i]>> \o Collect(flat, i + 1, seen_chunks \cup {flat[i].chunk_id})
       ELSE Collect(flat, i + 1, seen_chunks)
RECURSIVE Flatten(_, _, _)
Flatten(found, i, n) ==
  IF i > n THEN <<>> ELSE found[i] \o Flatten(found, i + 1, n)
Truncated(improved, k) == SubSeq(improved, 1, Min(k, Len(improved)))
\* smart_search(query, k)
smart_search(cfg, query, k, found) ==
  Truncated(rerank_results(cfg, query,
                           Collect(Flatten(found, 1, Len(expand_query(query))), 1, {})).out,
            k)


\* ------------------------------------------------ lk_assistant: AssistantManager
\* The cache is a dict in insertion order: a sequence of entries, one per client_id.
\* datetime.now() reads the same minute throughout one call.
Clients == {"x", "y"}
Threads == {1, 2}
CacheEntry(client_id, assistant, t) ==
  [client_id |-> client_id, assistant |-> assistant,
   created_at |-> t, last_accessed |-> t, access_count |-> 1]
InCache(c, client_id) == \E i \in 1..Len(c) : c[i].client_id = client_id
EntryOf(c, client_id) == c[CHOOSE i \in 1..Len(c) : c[i].client_id = client_id]
Without(c, client_id) == SelectSeq(c, LAMBDA e : e.client_id # client_id)
_is_cache_valid(cache_entry, ttl, t) == t < cache_entry.last_accessed + ttl
_cleanup_expired(c, ttl, t) == SelectSeq(c, LAMBDA e : _is_cache_valid(e, ttl, t))
\* min(keys, key=last_accessed): the first of the entries with the least last_accessed
Oldest(c) ==
  CHOOSE i \in 1..Len(c) :
    /\ \A j \in 1..Len(c) : c[i].last_accessed <= c[j].last_accessed
    /\ \A j \in 1..(i - 1) : c[j].last_accessed > c[i].last_accessed
_cleanup_oldest(c) ==
  IF c = <<>> THEN c ELSE Without(c, c[Oldest(c)].client_id)
\* get_assistant, lines 47-48: the capacity check made before the cache is consulted
AfterLimit(c, max) == IF Len(c) >= max THEN _cleanup_oldest(c) ELSE c
\* lines 51-53
AfterReload(c, client_id, force_reload) ==
  IF force_reload /\ InCache(c, client_id) THEN Without(c, client_id) ELSE c
Touched(c, client_id, t) ==
  [i \in 1..Len(c) |->
     IF c[i].client_id = client_id
     THEN [c[i] EXCEPT !.last_accessed = t, !.access_count = @ + 1]
     ELSE c[i]]
\* lines 56-81 on the cache left by the steps above; fresh is the LKAssistant that
\* line 71 would construct
Lookup(c, client_id, ttl, t, fresh) ==
  IF InCache(c, client_id) /\ _is_cache_valid(EntryOf(c, client_id), ttl, t)
  THEN [cache |-> Touched(c, client_id, t),
        assistant |-> EntryOf(c, client_id).assistant, created |-> FALSE]
  ELSE [cache |-> Append(Without(c, client_id), CacheEntry(client_id, fresh, t)),
        assistant |-> fresh, created |-> TRUE]
get_assistant(c, max, ttl, t, client_id, force_reload, fresh) ==
  Lookup(AfterReload(AfterLimit(_cleanup_expired(c, ttl, t), max), client_id, force_reload),
         client_id, ttl, t, fresh)
\* the dict get_assistant_info returns for a cached client
AssistantInfo(cache_entry, ttl, t) ==
  [client_id |-> cache_entry.client_id, assistant |-> cache_entry.assistant,
   cached_since |-> cache_entry.created_at, last_accessed |-> cache_entry.last_accessed,
   access_count |-> cache_entry.access_count,
   cache_valid |-> _is_cache_valid(cache_entry, ttl, t)]
get_assistant_info(c, client_id, ttl, t) ==
  IF ~InCache(c, client_id) THEN None ELSE Some(AssistantInfo(EntryOf(c, client_id), ttl, t))
RECURSIVE Shrunk(_, _)
\* update_assistant_settings, lines 240-241
Shrunk(c, max) == IF Len(c) > max THEN Shrunk(_cleanup_oldest(c), max) ELSE c
\* a call frame of a thread inside the manager
Frame(op, client_id, todo, out) == [op |-> op, client_id |-> client_id, todo |-> todo, out |-> out]
Top(stack) == stack[Len(stack)]
Pop(stack) == SubSeq(stack, 1, Len(stack) - 1)


\* ------------------------------------------------ similar-item search
\* visual_index.reconstruct(visual_faiss_id): raises for an offset the index lacks
reconstruct(p, faiss_id) ==
  IF faiss_id \in 0..(ntotal(p) - 1) THEN Some([d |-> p.d, x |-> p.vecs[faiss_id + 1]])
  ELSE None
\* get_visual_vector(chunk_id)
get_visual_vector(s, chunk_id) ==
  IF ~s.enable_visual_search \/ chunk_id \notin DOMAIN s.metadata THEN None
  ELSE IF s.metadata[chunk_id].visual_faiss_id # NoId /\ s.visual_index # None
       THEN reconstruct(Val(s.visual_index), s.metadata[chunk_id].visual_faiss_id)
       ELSE None
\* the hits of a list that are not the chunk itself
OtherChunks(hits, chunk_id) == SelectSeq(hits, LAMBDA h : h.chunk_id # chunk_id)
SimilarTo(s, visual_vector, chunk_id, k) ==
  IF visual_vector = None THEN <<>>
  ELSE Truncated(OtherChunks(search_visual(s, Val(visual_vector), k + 1, 0), chunk_id), k)
\* get_similar_visual_chunks(chunk_id, k)
get_similar_visual_chunks(s, chunk_id, k) ==
  SimilarTo(s, get_visual_vector(s, chunk_id), chunk_id, k)
\* DocumentProcessor.get_similar_to_existing(source_file, k): the file name is handed
\* to the manager as the chunk_id
get_similar_to_existing(enabled, s, source_file, k) ==
  IF ~enabled THEN <<>> ELSE get_similar_visual_chunks(s, source_file, k)

Init ==
  /\ enable_visual_search \in BOOLEAN
  /\ index = None
  /\ text_index = None
  /\ visual_index = None
  /\ metadata = EmptyMap
  /\ id_to_chunk_id = EmptyMap
  /\ chunk_id_to_id = EmptyMap
  /\ text_id_to_chunk_id = EmptyMap
  /\ visual_id_to_chunk_id = EmptyMap
  /\ chunk_id_to_ids = EmptyMap
  /\ disk = EmptyDisk
  /\ res = [op |-> "init", raised |-> FALSE, out |-> <<>>]
  /\ intact = TRUE
  /\ ops = 0
  /\ dp_enable_visual_search = ENABLE_VISUAL_SEARCH_BY_DEFAULT
  /\ reqs = [i \in Requests |-> Idle]
  /\ search_config = SearchConfig(3, 7, 3)
  /\ all_results = <<>>
  /\ assistants_cache = <<>>
  /\ max_assistants = 2
  /\ cache_ttl_minutes = 2
  /\ lock = 0
  /\ now = 0
  /\ calls = [t \in Threads |-> <<>>]

\* a new FAISSManager for the same tenant (a new request / process)
NewManager(mode) ==
  /\ SetMem(Constructed(mode))
  /\ res' = [op |-> "new", raised |-> FALSE, out |-> <<>>]
  /\ UNCHANGED <<disk, intact>>
  /\ UNCHANGED proc

AddChunks(chunks) ==
  /\ TextTotal(Mem) + Len(chunks) <= MaxVectors
  /\ LET r == add_chunks(Mem, chunks)
     IN /\ SetMem(r.s)
        /\ res' = [op |-> "add_chunks", raised |-> r.raised, out |-> r.out]
  /\ UNCHANGED <<disk, intact>>
  /\ UNCHANGED proc

AddTextChunk(c) ==
  /\ TextTotal(Mem) < MaxVectors
  /\ LET r == add_text_chunk(Mem, c)
     IN /\ SetMem(r.s)
        /\ res' = [op |-> "add_text_chunk", raised |-> r.raised, out |-> r.out, chunk |-> c]
  /\ UNCHANGED <<disk, intact>>
  /\ UNCHANGED proc

AddMultimodalChunk(c, v) ==
  /\ TextTotal(Mem) < MaxVectors
  /\ LET r == add_multimodal_chunk(Mem, c, v)
     IN /\ SetMem(r.s)
        /\ res' = [op |-> "add_multimodal_chunk", raised |-> r.raised, out |-> r.out,
                   chunk |-> c, visual_vector |-> v]
  /\ UNCHANGED <<disk, intact>>
  /\ UNCHANGED proc

RemoveChunks(chunk_ids) ==
  /\ LET r == remove_chunks(Mem, chunk_ids)
     IN /\ SetMem(r.s)
        /\ res' = [op |-> "remove_chunks", raised |-> r.raised, out |-> r.out,
                   chunk_ids |-> chunk_ids]
  /\ UNCHANGED <<disk, intact>>
  /\ UNCHANGED proc

Search(q, k, th) ==
  /\ res' = [op |-> "search", raised |-> FALSE, out |-> search(Mem, q, k, th),
             query |-> q, k |-> k, score_threshold |-> th]
  /\ UNCHANGED <<mem, disk, intact>>
  /\ UNCHANGED proc

SearchText(q, k, th) ==
  /\ res' = [op |-> "search_text", raised |-> FALSE, out |-> search_text(Mem, q, k, th),
             query |-> q, k |-> k, score_threshold |-> th]
  /\ UNCHANGED <<mem, disk, intact>>
  /\ UNCHANGED proc

SearchVisual(v, k, th) ==
  /\ res' = [op |-> "search_visual", raised |-> FALSE, out |-> search_visual(Mem, v, k, th),
             query |-> v.x, k |-> k, score_threshold |-> th]
  /\ UNCHANGED <<mem, disk, intact>>
  /\ UNCHANGED proc

SearchMultimodal(tq, vq, k, w) ==
  /\ res' = [op |-> "search_multimodal", raised |-> FALSE,
             out |-> search_multimodal(Mem, tq, vq, k, w),
             text_query |-> tq, visual_query |-> vq, k |-> k, text_weight |-> w]
  /\ UNCHANGED <<mem, disk, intact>>
  /\ UNCHANGED proc

GetAllChunks ==
  /\ res' = [op |-> "get_all_chunks", raised |-> FALSE, out |-> get_all_chunks(Mem)]
  /\ UNCHANGED <<mem, disk, intact>>
  /\ UNCHANGED proc

GetChunksBySource(source_file) ==
  /\ res' = [op |-> "get_chunks_by_source", raised |-> FALSE,
             out |-> get_chunks_by_source(Mem, source_file), source_file |-> source_file]
  /\ UNCHANGED <<mem, disk, intact>>
  /\ UNCHANGED proc

SaveIndex ==
  /\ disk' = save_index(Mem, disk)
  /\ res' = [op |-> "save_index", raised |-> FALSE, out |-> <<>>]
  /\ UNCHANGED <<mem, intact>>
  /\ UNCHANGED proc

LoadIndex ==
  /\ LET r == load_index(Mem, disk)
     IN /\ SetMem(r.s)
        /\ res' = [op |-> "load_index", raised |-> r.raised, out |-> r.out]
  /\ UNCHANGED <<disk, intact>>
  /\ UNCHANGED proc

ClearIndex ==
  /\ SetMem(clear_index(Mem))
  /\ disk' = EmptyDisk
  /\ res' = [op |-> "clear_index", raised |-> FALSE, out |-> <<>>]
  /\ intact' = TRUE
  /\ UNCHANGED proc

\* an index file of the tenant directory is absent when the directory is next
\* opened: the case load_index probes with path.exists()
LoseIndexFile(f) ==
  /\ disk[f] # None
  /\ disk' = [disk EXCEPT ![f] = None, !.unreadable = @ \ {f}]
  /\ intact' = FALSE
  /\ res' = [op |-> "lose_index_file", raised |-> FALSE, out |-> <<>>]
  /\ UNCHANGED mem
  /\ UNCHANGED proc

\* save_index() does not complete: the writes before the failing one stay on disk
SaveIndexInterrupted(n, torn) ==
  /\ n < Len(SaveOrder(Mem))
  /\ disk' = save_index_interrupted(Mem, disk, n, torn)
  /\ intact' = FALSE
  /\ res' = [op |-> "save_index_interrupted", raised |-> TRUE, out |-> <<>>,
             n |-> n, torn |-> torn]
  /\ UNCHANGED <<mem, proc>>

\* a DocumentProcessor is constructed for the tenant (a new request / process)
NewDocumentProcessor(requested, clip_available) ==
  /\ dp_enable_visual_search' = processor_mode(requested, clip_available)
  /\ LET r == new_processor(requested, clip_available, disk)
     IN /\ SetMem(r.s)
        /\ res' = [op |-> "DocumentProcessor", raised |-> FALSE, out |-> r.out]
  /\ UNCHANGED <<disk, intact, reqs, layers>>

ProcessDocuments(docs, update_existing) ==
  /\ TextTotal(Mem) + Len(docs) <= MaxVectors
  /\ LET r == process_documents_from_json(Mem, disk, dp_enable_visual_search, docs,
                                          update_existing)
     IN /\ SetMem(r.s)
        /\ disk' = r.d
        /\ res' = [op |-> "process_documents_from_json", raised |-> r.raised,
                   out |-> r.out, docs |-> docs, update_existing |-> update_existing]
  /\ UNCHANGED <<intact, proc>>

RemoveDocument(source_file) ==
  /\ LET r == remove_document(Mem, disk, source_file)
     IN /\ SetMem(r.s)
        /\ disk' = r.d
        /\ res' = [op |-> "remove_document", raised |-> r.raised, out |-> r.out,
                   source_file |-> source_file]
  /\ UNCHANGED <<intact, proc>>

ApplyFilters(results, filters) ==
  /\ res' = [op |-> "_apply_filters", raised |-> FALSE,
             out |-> apply_filters(results, filters, 1),
             results |-> results, filters |-> filters]
  /\ UNCHANGED <<mem, disk, intact, proc>>

SearchDocuments(query, k, min_score, filters, search_mode) ==
  /\ res' = [op |-> "search_documents", raised |-> FALSE,
             out |-> search_documents(Mem, dp_enable_visual_search, query, k,
                                      min_score, filters, search_mode),
             query |-> query, k |-> k, min_score |-> min_score,
             filters |-> filters, search_mode |-> search_mode]
  /\ UNCHANGED <<mem, disk, intact, proc>>

\* a request for the tenant arrives: the route constructs DocumentProcessor(client_id),
\* which loads the tenant directory into a manager of its own
ReqStart(i, op, c) ==
  /\ reqs[i].pc = "idle"
  /\ reqs' = [reqs EXCEPT ![i] =
        [pc |-> "loaded", op |-> op, chunk |-> c,
         s |-> new_processor(ENABLE_VISUAL_SEARCH_BY_DEFAULT, TRUE, disk).s]]
  /\ UNCHANGED <<mem, disk, res, intact, ops, dp_enable_visual_search, layers>>

\* the request changes its manager: process_documents_from_json with one document, or
\* remove_chunks([chunk_id]) of delete_material; a request with nothing to save is done
ReqMutate(i) ==
  /\ reqs[i].pc = "loaded"
  /\ LET r == reqs[i]
         p == process_loop(r.s, ENABLE_VISUAL_SEARCH_BY_DEFAULT,
                           <<[chunk |-> r.chunk, visual |-> None, parse_fails |-> FALSE]>>,
                           1, FALSE, <<>>)
         d == remove_chunks(r.s, <<r.chunk>>)
     IN IF r.op = "index"
        THEN /\ TextTotal(r.s) < MaxVectors
             /\ reqs' = [reqs EXCEPT ![i].s = p.s,
                                     ![i].pc = IF p.outcomes = <<"indexed">>
                                               THEN "mutated" ELSE "done"]
        ELSE reqs' = [reqs EXCEPT ![i].s = d.s,
                                  ![i].pc = IF d.out THEN "mutated" ELSE "done"]
  /\ UNCHANGED <<mem, disk, res, intact, ops, dp_enable_visual_search, layers>>

\* the request saves its manager into the tenant directory and answers
ReqSave(i) ==
  /\ reqs[i].pc = "mutated"
  /\ disk' = save_index(reqs[i].s, disk)
  /\ reqs' = [reqs EXCEPT ![i].pc = "done"]
  /\ UNCHANGED <<mem, res, intact, ops, dp_enable_visual_search, layers>>

\* both requests have answered; the next two arrive
NextRequests ==
  /\ \A i \in Requests : reqs[i].pc = "done"
  /\ reqs' = [i \in Requests |-> Idle]
  /\ UNCHANGED <<mem, disk, res, intact, ops, dp_enable_visual_search, layers>>

\* a request constructs SearchConfig and RelevanceImprover; it holds no hits yet
NewRelevanceImprover(min_score_threshold, semantic_weight, keyword_weight) ==
  /\ search_config' = SearchConfig(min_score_threshold, semantic_weight, keyword_weight)
  /\ all_results' = <<>>
  /\ ops' = 0
  /\ res' = [op |-> "RelevanceImprover", raised |-> FALSE, out |-> <<>>]
  /\ UNCHANGED <<mem, disk, intact, dp_enable_visual_search, reqs, cache>>

\* the caller gets a list of hits from a search
ObtainResults(hits) ==
  /\ all_results = <<>>
  /\ res.op # "smart_search"
  /\ all_results' = hits
  /\ res' = [op |-> "results", raised |-> FALSE, out |-> hits]
  /\ UNCHANGED <<mem, disk, intact, ops, dp_enable_visual_search, reqs, search_config, cache>>

\* rerank_results(query, results) on the list the caller holds
RerankResults(query) ==
  /\ all_results # <<>>
  /\ ops < MaxReranks
  /\ ops' = ops + 1
  /\ res.op # "smart_search"
  /\ LET r == rerank_results(search_config, query, all_results)
     IN /\ all_results' = r.objects
        /\ res' = [op |-> "rerank_results", raised |-> FALSE, out |-> r.out,
                   query |-> query, config |-> search_config, given |-> all_results,
                   filtered |-> r.filtered]
  /\ UNCHANGED <<mem, disk, intact, dp_enable_visual_search, reqs, search_config, cache>>

\* SmartSearchEngine.smart_search(query, k); search_documents answers first for the
\* query itself and rest for each query expand_query derives from it
SmartSearch(query, k, first, rest) ==
  /\ all_results = <<>>
  /\ res.op # "smart_search"
  /\ LET found == [i \in 1..Len(expand_query(query)) |-> IF i = 1 THEN first ELSE rest]
     IN res' = [op |-> "smart_search", raised |-> FALSE,
                out |-> smart_search(search_config, query, k, found),
                query |-> query, config |-> search_config, k |-> k, found |-> found]
  /\ UNCHANGED <<mem, disk, intact, ops, dp_enable_visual_search, reqs, layers>>

\* ------------------------------------------------ AssistantManager operations
\* what a call into the AssistantManager leaves alone
service == <<mem, disk, intact, dp_enable_visual_search, reqs, rerank>>

\* get_assistant(client_id, force_reload): the whole body runs under the lock
GetAssistant(client_id, force_reload) ==
  /\ lock = 0
  /\ ops < MaxGets
  /\ ops' = ops + 1
  /\ LET r == get_assistant(assistants_cache, max_assistants, cache_ttl_minutes, now,
                            client_id, force_reload, ops + 1)
     IN /\ assistants_cache' = r.cache
        /\ res' = [op |-> "get_assistant", raised |-> FALSE, out |-> r.assistant,
                   client_id |-> client_id, force_reload |-> force_reload,
                   created |-> r.created, before |-> assistants_cache, at |-> now]
  /\ UNCHANGED <<service, max_assistants, cache_ttl_minutes, lock, now, calls>>

\* remove_assistant(client_id)
RemoveAssistant(client_id) ==
  /\ lock = 0
  /\ assistants_cache' = Without(assistants_cache, client_id)
  /\ res' = [op |-> "remove_assistant", raised |-> FALSE,
             out |-> InCache(assistants_cache, client_id)]
  /\ UNCHANGED <<service, ops, max_assistants, cache_ttl_minutes, lock, now, calls>>

\* clear_all_cache()
ClearAllCache ==
  /\ lock = 0
  /\ assistants_cache' = <<>>
  /\ res' = [op |-> "clear_all_cache", raised |-> FALSE, out |-> Len(assistants_cache)]
  /\ UNCHANGED <<service, ops, max_assistants, cache_ttl_minutes, lock, now, calls>>

\* update_assistant_settings(cache_ttl_minutes, max_assistants), each optional
UpdateAssistantSettings(ttl, max) ==
  /\ lock = 0
  /\ cache_ttl_minutes' = IF ttl # None THEN Val(ttl) ELSE cache_ttl_minutes
  /\ max_assistants' = IF max # None THEN Val(max) ELSE max_assistants
  /\ assistants_cache' = IF max # None THEN Shrunk(assistants_cache, Val(max))
                         ELSE assistants_cache
  /\ res' = [op |-> "update_assistant_settings", raised |-> FALSE, out |-> <<>>]
  /\ UNCHANGED <<service, ops, lock, now, calls>>

\* get_cache_stats(): cache_utilization divides by max_assistants
GetCacheStats ==
  /\ lock = 0
  /\ res' = [op |-> "get_cache_stats",
             raised |-> (Len(assistants_cache) > 0 /\ max_assistants = 0),
             out |-> Len(assistants_cache)]
  /\ UNCHANGED <<service, ops, cache>>

\* a thread calls get_assistant_info(client_id) and reaches `with self.lock`
CallGetAssistantInfo(t, client_id) ==
  /\ calls[t] = <<>>
  /\ calls' = [calls EXCEPT ![t] = <<Frame("get_assistant_info", client_id, {}, {})>>]
  /\ UNCHANGED <<service, res, ops, assistants_cache, max_assistants, cache_ttl_minutes,
                 lock, now>>

\* get_assistant_info acquires the lock, which is not reentrant, builds the info,
\* releases the lock and returns to its caller
RunGetAssistantInfo(t) ==
  /\ calls[t] # <<>>
  /\ Top(calls[t]).op = "get_assistant_info"
  /\ lock = 0
  /\ LET c == Top(calls[t]).client_id
         info == get_assistant_info(assistants_cache, c, cache_ttl_minutes, now)
         caller == Pop(calls[t])
     IN /\ calls' = [calls EXCEPT ![t] =
                       IF caller = <<>> THEN <<>>
                       ELSE <<Frame("list_active_assistants", "", Top(caller).todo \ {c},
                                    IF info # None THEN Top(caller).out \cup {Val(info)}
                                    ELSE Top(caller).out)>>]
        /\ res' = IF caller = <<>>
                  THEN [op |-> "get_assistant_info", raised |-> FALSE, out |-> info]
                  ELSE res
  /\ UNCHANGED <<service, ops, assistants_cache, max_assistants, cache_ttl_minutes,
                 lock, now>>

\* list_active_assistants(): `with self.lock`, then the loop over the cache's keys
ListActiveAssistants(t) ==
  /\ calls[t] = <<>>
  /\ lock = 0
  /\ lock' = t
  /\ calls' = [calls EXCEPT ![t] =
                 <<Frame("list_active_assistants", "",
                         {assistants_cache[i].client_id : i \in 1..Len(assistants_cache)},
                         {})>>]
  /\ UNCHANGED <<service, res, ops, assistants_cache, max_assistants, cache_ttl_minutes, now>>

\* line 201: the loop body calls self.get_assistant_info(client_id)
ListNext(t) ==
  /\ calls[t] # <<>>
  /\ Top(calls[t]).op = "list_active_assistants"
  /\ \E c \in Top(calls[t]).todo :
       calls' = [calls EXCEPT ![t] = Append(@, Frame("get_assistant_info", c, {}, {}))]
  /\ UNCHANGED <<service, res, ops, assistants_cache, max_assistants, cache_ttl_minutes,
                 lock, now>>

\* line 205: the loop is over; the lock is released on return
ListReturn(t) ==
  /\ calls[t] # <<>>
  /\ Top(calls[t]).op = "list_active_assistants"
  /\ Top(calls[t]).todo = {}
  /\ lock' = 0
  /\ calls' = [calls EXCEPT ![t] = <<>>]
  /\ res' = [op |-> "list_active_assistants", raised |-> FALSE, out |-> Top(calls[t]).out]
  /\ UNCHANGED <<service, ops, assistants_cache, max_assistants, cache_ttl_minutes, now>>

\* a minute passes
Advance ==
  /\ now < MaxTime
  /\ now' = now + 1
  /\ UNCHANGED <<service, res, ops, assistants_cache, max_assistants, cache_ttl_minutes,
                 lock, calls>>

\* ------------------------------------------------ similar-item operations
GetSimilarVisualChunks(chunk_id, k) ==
  /\ res' = [op |-> "get_similar_visual_chunks", raised |-> FALSE,
             out |-> get_similar_visual_chunks(Mem, chunk_id, k),
             chunk_id |-> chunk_id, k |-> k]
  /\ UNCHANGED <<mem, disk, intact, ops>>
  /\ UNCHANGED proc

GetSimilarToExisting(source_file, k) ==
  /\ res' = [op |-> "get_similar_to_existing", raised |-> FALSE,
             out |-> get_similar_to_existing(dp_enable_visual_search, Mem, source_file, k),
             source_file |-> source_file, k |-> k]
  /\ UNCHANGED <<mem, disk, intact, ops>>
  /\ UNCHANGED proc

\* one more call within the budget of a run
Tick == ops < MaxOps /\ ops' = ops + 1

Next ==
  \/ \E m \in BOOLEAN : NewManager(m) /\ Tick
  \/ \E cs \in ChunkLists : AddChunks(cs) /\ Tick
  \/ \E c \in ChunkIds : AddTextChunk(c) /\ Tick
  \/ \E c \in ChunkIds, v \in VisualVectors : AddMultimodalChunk(c, v) /\ Tick
  \/ \E cs \in ChunkLists : RemoveChunks(cs) /\ Tick
  \/ SaveIndex /\ Tick
  \/ LoadIndex /\ Tick
  \/ ClearIndex /\ Tick
  \/ \E f \in IndexFiles : LoseIndexFile(f) /\ Tick

\* the tenant directory with the manager's calls: add, remove, save, load, clear
Spec == Init /\ [][Next]_vars

\* a search or metadata query changes nothing but res: it is explored from every
\* state the other calls leave, and querying again from its state reaches nothing new
SearchOps == {"search", "search_text", "search_visual", "search_multimodal",
              "get_all_chunks", "get_chunks_by_source",
              "_apply_filters", "search_documents"}
Settled == res.op \notin SearchOps

NextSearch ==
  \/ \E cs \in ChunkLists : AddChunks(cs) /\ UNCHANGED ops
  \/ \E c \in ChunkIds : AddTextChunk(c) /\ UNCHANGED ops
  \/ \E c \in ChunkIds, v \in VisualVectors : AddMultimodalChunk(c, v) /\ UNCHANGED ops
  \/ \E cs \in ChunkLists : RemoveChunks(cs) /\ UNCHANGED ops
  \/ \E q \in TextQueries, k \in 1..MaxK, th \in Thresholds :
        Settled /\ Search(q, k, th) /\ UNCHANGED ops
  \/ \E q \in TextQueries, k \in 1..MaxK, th \in Thresholds :
        Settled /\ SearchText(q, k, th) /\ UNCHANGED ops
  \/ \E v \in VisualQueries, k \in 1..MaxK, th \in Thresholds :
        Settled /\ SearchVisual(v, k, th) /\ UNCHANGED ops
  \/ \E tq \in OptTextQueries, vq \in OptVisualQueries, k \in 1..MaxK, w \in 0..WDen :
        Settled /\ SearchMultimodal(tq, vq, k, w) /\ UNCHANGED ops
  \/ Settled /\ GetAllChunks /\ UNCHANGED ops
  \/ \E f \in SourceFiles : Settled /\ GetChunksBySource(f) /\ UNCHANGED ops

\* one manager in memory: add, remove and the searches
SpecSearch == Init /\ [][NextSearch]_vars

\* completed writes of a save that does not complete (save_index writes at most 5 files)
Interruptions == 0..4

NextFaults ==
  \/ \E m \in BOOLEAN : NewManager(m) /\ Tick
  \/ \E cs \in ChunkLists : AddChunks(cs) /\ Tick
  \/ SaveIndex /\ Tick
  \/ \E n \in Interruptions, torn \in BOOLEAN : SaveIndexInterrupted(n, torn) /\ Tick
  \/ LoadIndex /\ Tick

\* the tenant directory with saves that may stop half way
SpecFaults == Init /\ [][NextFaults]_vars

\* hit lists and filters handed to _apply_filters and search_documents
MetaDicts == {EmptyMap, [category |-> "A"], [category |-> "B"],
              [category |-> "A", kind |-> "B"]}
FilterHits == {[chunk_id |-> "a", score |-> 1, metadata |-> m] : m \in MetaDicts}
HitLists == {<<>>} \cup {<<h>> : h \in FilterHits}
            \cup {<<g, h>> : g \in FilterHits, h \in FilterHits}
FilterValues == {Scalar("A"), Scalar("B"), List({"A", "B"}), List({})}
Filters == {EmptyMap} \cup {[category |-> v] : v \in FilterValues}
           \cup {[kind |-> v] : v \in FilterValues}
           \cup {[category |-> v, kind |-> w] : v \in FilterValues, w \in FilterValues}
DocFilters == {EmptyMap, [category |-> Scalar("A")], [category |-> List({"A", "B"})],
               [kind |-> Scalar("B")], [category |-> Scalar("B"), kind |-> Scalar("B")]}
SearchModes == {"auto", "text", "visual_description"}

NextFilters ==
  \/ \E m \in BOOLEAN, ok \in BOOLEAN : NewDocumentProcessor(m, ok) /\ UNCHANGED ops
  \/ \E cs \in ChunkLists : AddChunks(cs) /\ UNCHANGED ops
  \/ \E c \in ChunkIds, v \in VisualVectors : AddMultimodalChunk(c, v) /\ UNCHANGED ops
  \/ \E hs \in HitLists, f \in Filters : Settled /\ ApplyFilters(hs, f) /\ UNCHANGED ops
  \/ \E q \in OptTextQueries, k \in 1..MaxK, th \in Thresholds, f \in DocFilters,
        m \in SearchModes :
        Settled /\ SearchDocuments(q, k, th, f, m) /\ UNCHANGED ops

\* a processor and its manager in memory: adds, the filter and search_documents
SpecFilters == Init /\ [][NextFilters]_vars

\* documents of a batch: parsed documents, images with their vector, unparsable files
Documents ==
  {[chunk |-> c, visual |-> None, parse_fails |-> f] : c \in ChunkIds, f \in BOOLEAN}
  \cup {[chunk |-> "a", visual |-> Some(v), parse_fails |-> FALSE] : v \in VisualVectors}
Batches == {<<>>} \cup {<<d>> : d \in Documents}
           \cup {<<d, e>> : d \in Documents, e \in Documents}

\* one more request within the budget of a run
TickRequest == ops < MaxRequests /\ ops' = ops + 1

NextProcessor ==
  \/ \E m \in BOOLEAN, ok \in BOOLEAN : NewDocumentProcessor(m, ok) /\ TickRequest
  \/ \E b \in Batches, u \in BOOLEAN : ProcessDocuments(b, u) /\ TickRequest
  \/ \E f \in SourceFiles : RemoveDocument(f) /\ TickRequest
  \/ \E cs \in ChunkLists : RemoveChunks(cs) /\ TickRequest
  \/ SaveIndex /\ TickRequest
  \/ LoadIndex /\ TickRequest

\* a processor constructed with the default mode on an empty tenant directory
InitProcessor == Init /\ enable_visual_search = dp_enable_visual_search
\* the requests of the service: each works through a DocumentProcessor
SpecProcessor == InitProcessor /\ [][NextProcessor]_vars

RequestOps == {"index", "delete"}

NextConcurrent ==
  \/ \E i \in Requests, op \in RequestOps, c \in ChunkIds : ReqStart(i, op, c)
  \/ \E i \in Requests : ReqMutate(i)
  \/ \E i \in Requests : ReqSave(i)
  \/ NextRequests

\* two requests at a time on one tenant directory, each step of one of them in turn
SpecConcurrent == InitProcessor /\ [][NextConcurrent]_vars

\* the hits search_documents returns to the reranker
Hit(c, score) ==
  [chunk_id |-> c, score |-> score,
   text |-> IF c = "g" THEN {"grunt", "dom"} ELSE IF c = "n" THEN {"dom", "fasad"}
            ELSE {"dom"},
   source_file |->
     IF c = "g" THEN [name |-> "otchet.pdf", words |-> {"otchet"}, ext |-> ".pdf"]
     ELSE IF c = "p" THEN [name |-> "dom.jpg", words |-> {"dom"}, ext |-> ".jpg"]
     ELSE IF c = "w" THEN [name |-> "dom.webp", words |-> {"dom"}, ext |-> ".webp"]
     ELSE [name |-> "zapiska.pdf", words |-> {"zapiska"}, ext |-> ".pdf"],
   metadata |-> [category |-> IF c = "g" THEN {"geologiya"}
                              ELSE IF c \in {"p", "w"} THEN {"foto"} ELSE {"zapiska"},
                 title |-> {}, description |-> {}],
   intent_score |-> 0, original_score |-> 0, keyword_score |-> 0, combined_score |-> 0]
HitChunks == {"g", "p", "w", "n"}
OriginalScores == {(4 * Unit) \div 10, (9 * Unit) \div 10}
RerankHits == {Hit(c, sc) : c \in HitChunks, sc \in OriginalScores}
OneHit == {<<h>> : h \in RerankHits}
RerankLists ==
  OneHit \cup {p \in RerankHits \X RerankHits : p[1].chunk_id # p[2].chunk_id}
\* what search_documents answers inside smart_search
FoundLists == {<<>>} \cup {hs \in RerankLists : \A i \in DOMAIN hs : hs[i].score = (9 * Unit) \div 10}
RerankQueries == {{"dom"}, {"grunt"}, {"grunt", "izyskaniya"}, {"grunt", "foto"}, {"fasad"}}
ScoreThresholds == {-3, 3, 8}
SemanticWeights == {7, 15}
KeywordWeights == {0, 3}

NextRerank ==
  \/ \E th \in ScoreThresholds, sw \in SemanticWeights, kw \in KeywordWeights :
        NewRelevanceImprover(th, sw, kw)
  \/ \E hs \in RerankLists : ObtainResults(hs)
  \/ \E q \in RerankQueries : RerankResults(q)
  \/ \E q \in RerankQueries, k \in 1..MaxK, first \in FoundLists, rest \in FoundLists :
        Len(rest) <= 1 /\ SmartSearch(q, k, first, rest)

\* requests to the smart search: each constructs its reranker, searches and reranks
SpecRerank == InitProcessor /\ [][NextRerank]_vars

\* ------------------------------------------------ the AssistantManager of a process
TtlValues == {None, Some(1), Some(2)}
MaxValues == {None, Some(0), Some(1), Some(2)}
ThreadStep(t) ==
  \/ RunGetAssistantInfo(t)
  \/ ListNext(t)
  \/ ListReturn(t)
NextAssistants ==
  \/ \E c \in Clients, f \in BOOLEAN : GetAssistant(c, f)
  \/ \E c \in Clients : RemoveAssistant(c)
  \/ ClearAllCache
  \/ \E ttl \in TtlValues, max \in MaxValues : UpdateAssistantSettings(ttl, max)
  \/ GetCacheStats
  \/ \E t \in Threads, c \in Clients : CallGetAssistantInfo(t, c)
  \/ \E t \in Threads : ListActiveAssistants(t)
  \/ \E t \in Threads : ThreadStep(t)
  \/ Advance
SpecAssistants == InitProcessor /\ [][NextAssistants]_vars
\* every thread inside the manager is scheduled again and again
SpecAssistantsFair ==
  SpecAssistants /\ \A t \in Threads : WF_vars(ThreadStep(t))

\* ------------------------------------------------ a processor serving similar-item search
ImageVectors == {[d |-> VISUAL_EMBEDDING_DIMENSION, x |-> 1],
                 [d |-> VISUAL_EMBEDDING_DIMENSION, x |-> 2]}
NextSimilar ==
  \/ \E m \in BOOLEAN, ok \in BOOLEAN : NewDocumentProcessor(m, ok) /\ UNCHANGED ops
  \/ \E c \in ChunkIds : AddTextChunk(c) /\ UNCHANGED ops
  \/ \E c \in ChunkIds, v \in ImageVectors : AddMultimodalChunk(c, v) /\ UNCHANGED ops
  \/ \E cs \in ChunkLists : RemoveChunks(cs) /\ UNCHANGED ops
  \/ \E c \in ChunkIds, k \in 1..MaxK : GetSimilarVisualChunks(c, k)
  \/ \E f \in SourceFiles, k \in 1..MaxK : GetSimilarToExisting(f, k)
SpecSimilar == InitProcessor /\ [][NextSimilar]_vars

\* ------------------------------------------------------------------ claims
InRange(o, idx) == idx # None /\ 0 <= o /\ o < ntotal(Val(idx))
OffsetIntegrity ==
  /\ \A o \in DOMAIN id_to_chunk_id : InRange(o, index)
  /\ \A c \in DOMAIN chunk_id_to_id : InRange(chunk_id_to_id[c], index)
  /\ \A o \in DOMAIN text_id_to_chunk_id : InRange(o, text_index)
  /\ \A o \in DOMAIN visual_id_to_chunk_id : InRange(o, visual_index)
  /\ \A c \in DOMAIN chunk_id_to_ids :
        /\ chunk_id_to_ids[c].text_id # NoId => InRange(chunk_id_to_ids[c].text_id, text_index)
        /\ chunk_id_to_ids[c].visual_id # NoId
              => InRange(chunk_id_to_ids[c].visual_id, visual_index)

\* C1: after any sequence of add_chunks / add_text_chunk / add_multimodal_chunk and
\* remove_chunks calls (and saves and loads of a directory that lost no file), every
\* offset stored in a mapping is at least 0 and below ntotal of its primitive.
C1_OffsetIntegrity == intact => OffsetIntegrity
\* a removal succeeded and offsets of both modalities are still mapped
C1_Witness ==
  /\ intact /\ res.op = "remove_chunks" /\ res.out = TRUE
  /\ text_id_to_chunk_id # EmptyMap /\ visual_id_to_chunk_id # EmptyMap

\* number of vectors of an optional primitive
Count(idx) == IF idx = None THEN 0 ELSE ntotal(Val(idx))

\* C2: after remove_chunks returns, each primitive's total count equals the number of
\* surviving chunks that have an offset in that modality (so removing every chunk
\* leaves total count 0 on all primitives).
C2_RebuildOnRemove ==
  (intact /\ res.op = "remove_chunks") =>
     IF enable_visual_search
     THEN /\ Count(text_index) = Cardinality({c \in DOMAIN metadata :
                                    metadata[c].text_faiss_id # NoId})
          /\ Count(visual_index) = Cardinality({c \in DOMAIN metadata :
                                      metadata[c].visual_faiss_id # NoId})
     ELSE Count(index) = Cardinality({c \in DOMAIN metadata : metadata[c].faiss_id # NoId})

\* the text offset recorded for a stored chunk, and the visual offsets mapped to it
HasTextOffset(c) ==
  IF enable_visual_search
  THEN c \in DOMAIN chunk_id_to_ids /\ chunk_id_to_ids[c].text_id # NoId
  ELSE c \in DOMAIN chunk_id_to_id
HasVisualOffset(c) == \E o \in DOMAIN visual_id_to_chunk_id : visual_id_to_chunk_id[o] = c

\* C3 (invariant I2): every chunk_id in the metadata store has a text offset recorded
\* for it, and its has_visual_vector flag is true iff a visual offset for that chunk_id
\* is present in the visual mapping.
C3_I2 ==
  intact => \A c \in DOMAIN metadata :
               /\ HasTextOffset(c)
               /\ metadata[c].has_visual_vector <=> HasVisualOffset(c)

\* two optional primitives hold the same vectors (no primitive holds none)
SameIndex(a, b) == IF a = None \/ b = None THEN Count(a) = Count(b) ELSE a = b
\* the mode and, for that mode, the metadata store and the offset mappings
SameStores(l, s) ==
  /\ l.enable_visual_search = s.enable_visual_search
  /\ l.metadata = s.metadata
  /\ IF s.enable_visual_search
     THEN /\ l.text_id_to_chunk_id = s.text_id_to_chunk_id
          /\ l.visual_id_to_chunk_id = s.visual_id_to_chunk_id
          /\ l.chunk_id_to_ids = s.chunk_id_to_ids
     ELSE /\ l.id_to_chunk_id = s.id_to_chunk_id
          /\ l.chunk_id_to_id = s.chunk_id_to_id
\* the index contents of the mode
SamePrimitives(l, s) ==
  IF s.enable_visual_search
  THEN SameIndex(l.text_index, s.text_index) /\ SameIndex(l.visual_index, s.visual_index)
  ELSE SameIndex(l.index, s.index)
SameSearches(l, s) ==
  /\ \A q \in TextQueries, k \in 1..MaxK, th \in Thresholds :
        /\ search(l, q, k, th) = search(s, q, k, th)
        /\ search_text(l, q, k, th) = search_text(s, q, k, th)
  /\ \A v \in VisualQueries, k \in 1..MaxK, th \in Thresholds :
        search_visual(l, v, k, th) = search_visual(s, v, k, th)
\* the primitives of the manager's mode exist: it made an add or loaded them
HasPrimitives ==
  IF enable_visual_search THEN text_index # None /\ visual_index # None
  ELSE index # None

C4_WitnessStale ==
  /\ res.op = "save_index" /\ ~HasPrimitives
  /\ \E f \in IndexFiles : disk[f] # None

\* C5: an add_multimodal_chunk call that fails because the visual vector's length
\* disagrees with the visual primitive's dimension leaves the counts of both
\* primitives, the metadata store and all mappings as they were before the call.
C5_RejectBeforeAppend ==
  [][(/\ res'.op = "add_multimodal_chunk" /\ res'.raised
      /\ enable_visual_search
      /\ res'.visual_vector.d # VISUAL_EMBEDDING_DIMENSION)
     => (/\ Count(text_index') = Count(text_index)
         /\ Count(visual_index') = Count(visual_index)
         /\ metadata' = metadata
         /\ text_id_to_chunk_id' = text_id_to_chunk_id
         /\ visual_id_to_chunk_id' = visual_id_to_chunk_id
         /\ chunk_id_to_ids' = chunk_id_to_ids)]_vars

\* the offsets the mappings hold for chunk c
OffsetsOf(s, c) ==
  <<{o \in DOMAIN s.id_to_chunk_id : s.id_to_chunk_id[o] = c},
    {o \in DOMAIN s.text_id_to_chunk_id : s.text_id_to_chunk_id[o] = c},
    {o \in DOMAIN s.visual_id_to_chunk_id : s.visual_id_to_chunk_id[o] = c},
    IF c \in DOMAIN s.chunk_id_to_id THEN Some(s.chunk_id_to_id[c]) ELSE None,
    IF c \in DOMAIN s.chunk_id_to_ids THEN Some(s.chunk_id_to_ids[c]) ELSE None>>
\* the effect of add_text_chunk with a chunk_id that was not stored
AddsOneEntry ==
  (/\ res'.op = "add_text_chunk" /\ ~res'.raised
   /\ res'.chunk \notin DOMAIN metadata)
  => (/\ DOMAIN metadata' = DOMAIN metadata \cup {res'.chunk}
      /\ \A c \in DOMAIN metadata :
            metadata'[c] = metadata[c] /\ OffsetsOf(Mem', c) = OffsetsOf(Mem, c)
      /\ disk' = disk)

\* C6: adding a text chunk with a new chunk_id grows the metadata store by exactly one
\* entry, leaves every previously stored chunk's entry and offsets unchanged and
\* writes nothing to disk, in every state in which the add can be called.
C6_AddGrowsByOne == [][AddsOneEntry]_vars
\* the same, for managers whose tenant directory lost no index file
C6_AddGrowsByOneIntact == [][intact => AddsOneEntry]_vars

\* the mapping and primitive a text search of the current mode reads
TextMapping == IF enable_visual_search THEN text_id_to_chunk_id ELSE id_to_chunk_id
TextPrimitive == IF enable_visual_search THEN text_index ELSE index
NonIncreasing(hits) == \A i \in 1..(Len(hits) - 1) : hits[i].score >= hits[i + 1].score
\* hit h refers to a stored chunk through an offset of mapping m that holds its vector
LiveHit(h, m, idx, q) ==
  /\ h.chunk_id \in DOMAIN metadata
  /\ \E o \in DOMAIN m : /\ m[o] = h.chunk_id
                         /\ InRange(o, idx)
                         /\ h.score = Score(q, Val(idx).vecs[o + 1])

C7_WitnessThreshold ==
  /\ res.op = "search" /\ res.score_threshold > 0
  /\ Len(res.out) = 1 /\ Cardinality(DOMAIN metadata) = 2

\* chunk ids and scores of a hit list
HitList(hits) == [i \in DOMAIN hits |-> <<hits[i].chunk_id, hits[i].score>>]

\* C8: search_text(query, k, threshold), called directly or through the text-only
\* fallback of search_multimodal, returns the same hit list as search(query, k,
\* threshold), on a text-only manager as on a multimodal one.
C8_ModeIndependentTextSearch ==
  /\ res.op = "search_text"
       => HitList(res.out) = HitList(search(Mem, res.query, res.k, res.score_threshold))
  /\ (res.op = "search_multimodal" /\ ~enable_visual_search /\ res.text_query # None)
       => HitList(res.out) = HitList(search(Mem, Val(res.text_query), res.k, 0))

\* the manager was never created or loaded
NeverCreated ==
  /\ index = None /\ text_index = None /\ visual_index = None
  /\ metadata = EmptyMap
\* searches on missing data or a missing capability return the empty list
EmptySearches ==
  /\ (res.op = "search" /\ Count(TextPrimitive) = 0) => (res.out = <<>> /\ ~res.raised)
  /\ (res.op = "search_text" /\ Count(text_index) = 0) => (res.out = <<>> /\ ~res.raised)
  /\ (res.op = "search_visual" /\ (~enable_visual_search \/ Count(visual_index) = 0))
       => (res.out = <<>> /\ ~res.raised)
  /\ (res.op \in {"get_all_chunks", "get_chunks_by_source"} /\ NeverCreated)
       => (res.out = {} /\ ~res.raised)
\* remove_chunks on a manager that was never created or loaded is a no-op returning false
RemoveIsNoOp ==
  (res'.op = "remove_chunks" /\ NeverCreated)
     => (res'.out = FALSE /\ ~res'.raised /\ UNCHANGED mem)

\* C9: search, search_text and search_visual return an empty list when the manager was
\* never created or loaded, when the primitive holds zero vectors and (search_visual)
\* in text-only mode; remove_chunks and the metadata queries on such a manager are
\* no-ops returning empty / false.
C9_EmptyNotError == [](EmptySearches) /\ [][RemoveIsNoOp]_vars
\* a visual search on a text-only manager that holds chunks returned the empty list
C9_Witness ==
  /\ res.op = "search_visual" /\ ~enable_visual_search /\ metadata # EmptyMap
  /\ res.out = <<>>
C9_WitnessRemove ==
  /\ res.op = "remove_chunks" /\ res.chunk_ids # <<>> /\ res.out = FALSE /\ NeverCreated

\* the hits the two searches of search_multimodal return
TextHits == IF res.text_query # None
            THEN search_text(Mem, Val(res.text_query), res.k * 2, 0) ELSE <<>>
VisualHits == IF res.visual_query # None
              THEN search_visual(Mem, Val(res.visual_query), res.k * 2, 0) ELSE <<>>
ScoresOf(hits, c) == {hits[i].score : i \in {j \in DOMAIN hits : hits[j].chunk_id = c}}

\* C10: each chunk search_multimodal returns has combined_score w*t + (1-w)*v when both
\* searches returned it, t*w when only the text search did, v*(1-w) when only the
\* visual search did (scores times WDen, w = text_weight * WDen); so w = 1 gives t
\* and w = 0 gives v for a chunk in both hit sets.
C10_CombinedScore ==
  (res.op = "search_multimodal" /\ enable_visual_search) =>
     \A i \in DOMAIN res.out :
        LET r == res.out[i]
            w == res.text_weight
            ts == ScoresOf(TextHits, r.chunk_id)
            vs == ScoresOf(VisualHits, r.chunk_id)
        IN /\ ts # {} \/ vs # {}
           /\ (ts # {} /\ vs # {}) =>
                 \E t \in ts, v \in vs :
                    /\ r.combined_score = w * t + (WDen - w) * v
                    /\ w = WDen => r.combined_score = WDen * t
                    /\ w = 0 => r.combined_score = WDen * v
           /\ (ts # {} /\ vs = {}) => \E t \in ts : r.combined_score = t * w
           /\ (ts = {} /\ vs # {}) => \E v \in vs : r.combined_score = v * (WDen - w)
\* one search returned a chunk found by both searches with t # v and a chunk found by
\* the text search only
C10_Witness ==
  /\ res.op = "search_multimodal" /\ enable_visual_search
  /\ \E i \in DOMAIN res.out : /\ res.out[i].search_type = "multimodal"
                               /\ res.out[i].text_score # res.out[i].visual_score
  /\ \E i \in DOMAIN res.out : res.out[i].search_type = "text_only"

\* positions i above j in a search_multimodal result: i by one modality only, j by both
SingleAboveBoth(i, j) ==
  /\ i < j
  /\ res.out[i].search_type \in {"text_only", "visual_only"}
  /\ res.out[j].search_type = "multimodal"

\* C11 as stated: in the ranking search_multimodal returns, a chunk retrieved by only
\* one modality never ranks above a chunk retrieved by both modalities.
C11_SingleNeverAboveBoth ==
  (res.op = "search_multimodal" /\ enable_visual_search) =>
     \A i, j \in DOMAIN res.out : ~SingleAboveBoth(i, j)
\* C11 as amended: a chunk retrieved by one modality only counts the missing score as
\* 0, so (scores being non-negative) it ranks above a chunk retrieved by both only
\* when its combined score is at least as high, which needs its own score in its
\* modality to be at least the other chunk's score in that modality.
C11_SinglePenalised ==
  (res.op = "search_multimodal" /\ enable_visual_search) =>
     \A i, j \in DOMAIN res.out :
        SingleAboveBoth(i, j) =>
           /\ res.out[i].combined_score >= res.out[j].combined_score
           /\ res.out[i].search_type = "text_only"
                => /\ res.out[i].visual_score = 0
                   /\ res.out[i].text_score >= res.out[j].text_score
           /\ res.out[i].search_type = "visual_only"
                => /\ res.out[i].text_score = 0
                   /\ res.out[i].visual_score >= res.out[j].visual_score
\* a text-only chunk with the higher text score ranks above a chunk found by both
C11_Witness ==
  /\ res.op = "search_multimodal" /\ enable_visual_search
  /\ \E i, j \in DOMAIN res.out :
        /\ SingleAboveBoth(i, j)
        /\ res.out[i].search_type = "text_only"
        /\ res.out[i].text_score > res.out[j].text_score

\* a hit passes a filter set: every filter key is in its metadata with a matching value
Matches(h, filters) ==
  \A key \in DOMAIN filters :
     /\ key \in DOMAIN h.metadata
     /\ IF filters[key].list THEN h.metadata[key] \in filters[key].values
        ELSE filters[key].values = {h.metadata[key]}
\* the subsequence of the hits that pass, in the original order
RECURSIVE Passing(_, _)
Passing(hits, filters) ==
  IF hits = <<>> THEN <<>>
  ELSE (IF Matches(Head(hits), filters) THEN <<Head(hits)>> ELSE <<>>)
       \o Passing(Tail(hits), filters)

\* C12: _apply_filters(hits, filters) returns, in the original order, exactly the hits
\* for which every filter key is present in the hit's metadata with an equal value
\* (scalar filter) or a member value (list filter); a hit missing a filter key is
\* excluded; search_documents returns at most k hits after filtering, all passing.
C12_FilterSemantics ==
  /\ res.op = "_apply_filters" => res.out = Passing(res.results, res.filters)
  /\ res.op = "search_documents" =>
        /\ Len(res.out) <= res.k
        /\ \A i \in DOMAIN res.out : Matches(res.out[i], res.filters)
\* a two-key filter kept one of two hits and dropped the hit that lacks a key
C12_Witness ==
  /\ res.op = "_apply_filters"
  /\ DOMAIN res.filters = {"category", "kind"}
  /\ Len(res.results) = 2 /\ Len(res.out) = 1
  /\ "kind" \notin DOMAIN res.results[1].metadata
  /\ res.out[1] = res.results[2]
\* search_documents dropped a hit by its filter and returned the other
C12_WitnessSearch ==
  /\ res.op = "search_documents" /\ res.filters # EmptyMap
  /\ Len(res.out) = 1 /\ Cardinality(DOMAIN metadata) = 2

\* the files the mode recorded in config.json requires, and whether only some exist
CoreFiles == {"metadata_pkl", "mappings_json", "config_json"}
RequiredFiles(d) ==
  CoreFiles \cup (IF d.config_json = None THEN {}
                  ELSE IF Val(d.config_json).enable_visual_search
                       THEN {"text_index_faiss", "visual_index_faiss"}
                       ELSE {"index_faiss"})
Incomplete(d) ==
  /\ \E f \in RequiredFiles(d) : d[f] # None
  /\ \E f \in RequiredFiles(d) : d[f] = None

\* C13: load_index returns False whenever some but not all files required by the
\* recorded mode are present in the tenant directory, including when metadata.pkl,
\* mappings.json and config.json exist but the index file(s) of that mode are missing.
C13_IncompleteLoadFails ==
  (res.op = "load_index" /\ Incomplete(disk)) => res.out = FALSE

\* C14: a load_index call that returns False leaves the manager as it was before the
\* call: mode, index primitives, metadata and mappings are unchanged.
C14_FailedLoadChangesNothing ==
  [][(res'.op = "load_index" /\ res'.out = FALSE) => UNCHANGED mem]_vars

\* what a fresh manager constructed with mode m holds after load_index from d
Loaded(m, d) == load_index(Constructed(m), d)
\* C15: if a save is interrupted at any point, a later load_index never succeeds with
\* files of two generations: it fails, or it loads what the directory held before the
\* save, or what the completed save would have written.
C15_SaveAllOrNothing ==
  [][res'.op = "save_index_interrupted" =>
       \A m \in BOOLEAN :
          Loaded(m, disk').out = TRUE =>
             \/ Loaded(m, disk) = Loaded(m, disk')
             \/ Loaded(m, save_index(Mem, disk)) = Loaded(m, disk')]_vars

\* C16: the mode of a manager is immutable once its processor has constructed it and
\* made the initial load: no later operation changes enable_visual_search, and the
\* mode the owning DocumentProcessor acts on equals its manager's mode.
C16_ModeImmutable ==
  /\ [](dp_enable_visual_search = enable_visual_search)
  /\ [][res'.op # "DocumentProcessor" => enable_visual_search' = enable_visual_search]_vars

\* a document of the batch that is in error has a defect: it cannot be parsed, or it
\* is an image whose vector the manager does not take
Defective(doc) ==
  \/ doc.parse_fails
  \/ /\ dp_enable_visual_search /\ doc.visual # None
     /\ \/ ~enable_visual_search
        \/ Val(doc.visual).d # VISUAL_EMBEDDING_DIMENSION
\* C18: in process_documents_from_json a failure while processing one document never
\* aborts the batch: the failing document is reported as an error, every other
\* document is processed, each indexed document is in the manager and in what a fresh
\* manager loads after the save at the end, and the call returns success = True.
C18_BatchSurvivesFailure ==
  res.op = "process_documents_from_json" =>
     /\ res.out.success = TRUE
     /\ Len(res.out.outcomes) = Len(res.docs)
     /\ \A i \in DOMAIN res.docs :
           /\ res.docs[i].parse_fails => res.out.outcomes[i] \in {"error", "skipped"}
           /\ res.out.outcomes[i] = "error" => Defective(res.docs[i])
           /\ res.out.outcomes[i] = "indexed" =>
                 /\ res.docs[i].chunk \in DOMAIN metadata
                 /\ \A m \in BOOLEAN :
                       /\ Loaded(m, disk).out = TRUE
                       /\ Loaded(m, disk).s.metadata = metadata
\* a batch whose first document fails indexed and saved its second document
C18_Witness ==
  /\ res.op = "process_documents_from_json"
  /\ res.out.outcomes = <<"error", "indexed">>
  /\ disk.metadata_pkl = Some(metadata)
  /\ res.docs[2].chunk \in DOMAIN metadata

\* C20: remove_document(source_file), called for a source file that has indexed chunks,
\* removes all of them: it returns True, afterwards get_chunks_by_source(source_file)
\* is empty, and the change is persisted with save_index.
C20_RemoveDocument ==
  [][(res'.op = "remove_document"
          /\ get_chunks_by_source(Mem, res'.source_file) # {})
       => /\ res'.out = TRUE
          /\ get_chunks_by_source(Mem', res'.source_file) = {}
          /\ disk'.metadata_pkl = Some(metadata')]_vars

\* what is persisted for the tenant: the metadata a fresh processor loads
Persisted == new_processor(ENABLE_VISUAL_SEARCH_BY_DEFAULT, TRUE, disk).s
\* request i has answered and its effect is in the persisted state
EffectPersisted(i) ==
  IF reqs[i].op = "index" THEN reqs[i].chunk \in DOMAIN Persisted.metadata
  ELSE reqs[i].chunk \notin DOMAIN Persisted.metadata
\* C17: when two mutating requests for one tenant run concurrently (each loads the
\* tenant state, adds or removes a chunk, then saves), the state persisted after both
\* have finished contains the effect of both, and every stored chunk has its offset
\* mapping.
C17_NoLostUpdate ==
  ((\A i \in Requests : reqs[i].pc = "done") /\ reqs[1].chunk # reqs[2].chunk) =>
     /\ \A i \in Requests : EffectPersisted(i)
     /\ \A c \in DOMAIN Persisted.metadata : c \in DOMAIN Persisted.chunk_id_to_id

\* the chunk ids that some search or some metadata query of manager s returns
FoundIds(s) ==
  UNION ({HitIds(search(s, q, k, th)) \cup HitIds(search_text(s, q, k, th)) :
             q \in TextQueries, k \in 1..MaxK, th \in Thresholds}
         \cup {HitIds(search_visual(s, v, k, th)) :
                  v \in VisualQueries, k \in 1..MaxK, th \in Thresholds}
         \cup {HitIds(search_multimodal(s, tq, vq, k, w)) :
                  tq \in OptTextQueries, vq \in OptVisualQueries, k \in 1..MaxK, w \in 0..WDen}
         \cup {{c \in ChunkIds : \E r \in get_all_chunks(s) : r.text = ChunkText(c)}}
         \cup {{c \in ChunkIds : \E r \in get_chunks_by_source(s, f) : r.text = ChunkText(c)} :
                  f \in SourceFiles})
\* chunk c is returned by no search and by no metadata query of manager s
NotFound(s, c) == c \notin FoundIds(s)
\* the chunk ids the step adds
Added ==
  IF res'.op = "add_chunks" THEN (IF metadata' # metadata THEN DOMAIN metadata' ELSE {})
  ELSE IF res'.op \in {"add_text_chunk", "add_multimodal_chunk"} THEN {res'.chunk}
  ELSE {}
\* the step takes the removed ids out of the store; no step but an add of that id or a
\* load_index puts an id into the store; what a load_index after this save_index
\* stores, in the same manager or a new one of either mode, the saving manager stores
RemovalSteps ==
  /\ res'.op = "remove_chunks" =>
        \A c \in Range(res'.chunk_ids) : c \notin DOMAIN metadata'
  /\ res'.op # "load_index" => DOMAIN metadata' \subseteq DOMAIN metadata \cup Added
  /\ res'.op = "save_index" =>
        \A m \in {Mem', Constructed(TRUE), Constructed(FALSE)} :
           DOMAIN load_index(m, disk').s.metadata \subseteq DOMAIN metadata'
\* C19: after remove_chunks(ids) returns, no search (search, search_text, search_visual,
\* search_multimodal) and no metadata query returns a chunk whose chunk_id is in ids,
\* until that chunk_id is added again, also after a following save_index and
\* load_index: every search and metadata query returns stored chunks only, and a
\* removed id is not stored until it is added again.
C19_RemovedNotFound == [](FoundIds(Mem) \subseteq DOMAIN metadata) /\ [][RemovalSteps]_vars
\* chunk a was removed while its vector stays in the primitive and another chunk is
\* still stored: a search for its text ranks its offset first and does not return it
C19_Witness ==
  /\ res.op = "remove_chunks" /\ res.out = TRUE /\ ~res.raised
  /\ "a" \in Range(res.chunk_ids)
  /\ metadata # EmptyMap
  /\ \E i \in 1..Count(TextPrimitive) : Val(TextPrimitive).vecs[i] = ChunkText("a")
  /\ NotFound(Mem, "a")

\* the query contains no keyword of any category
NoCategoryKeyword(query) ==
  \A i \in DOMAIN Categories : document_categories[Categories[i]] \cap query = {}
\* C21: for a query that contains none of the category keywords the intent is general
\* with a score below the 0.8 confidence threshold, and filter_by_intent drops no hit:
\* every hit passed to rerank_results reaches the scoring step.
C21_GeneralQueryDropsNothing ==
  (res.op = "rerank_results" /\ NoCategoryKeyword(res.query)) =>
     /\ MaxOf(detect_query_intent(res.query)) <= (8 * Unit) \div 10
     /\ Len(res.filtered) = Len(res.given)

\* the document types a hit's category and file name match in the keyword sets, the
\* file extension deciding only when no keyword set matches
InferredTypes(hit) ==
  LET matching == {Categories[i] : i \in {j \in DOMAIN Categories :
                      AnyKeyword(Categories[j], hit.metadata.category, hit.source_file)}}
  IN IF matching # {} THEN matching
     ELSE IF hit.source_file.ext \in {".jpg", ".png", ".jpeg"} THEN {"photos"}
     ELSE {"general"}
OffIntent(hit, query_intent) ==
  \A t \in InferredTypes(hit) : query_intent[t] < Unit \div 2
\* C22: when the dominant intent score of the query exceeds 0.8, every hit whose
\* document type (matched from its category and file name against the keyword sets,
\* the extension being a fallback for images) has an intent match below 0.5 is absent
\* from the reranked output; a photo-category hit is dropped for a geology query.
C22_IntentFiltering ==
  (res.op = "rerank_results" /\ ~NoCategoryKeyword(res.query)
     /\ MaxOf(detect_query_intent(res.query)) > (8 * Unit) \div 10) =>
     \A i \in DOMAIN res.given :
        OffIntent(res.given[i], detect_query_intent(res.query)) =>
           \A j \in DOMAIN res.out : res.out[j].chunk_id # res.given[i].chunk_id

\* the scores of a returned hit under configuration cfg
Fused(cfg, hit) ==
  /\ hit.combined_score = (cfg.semantic_weight * hit.original_score
                           + cfg.keyword_weight * hit.keyword_score
                           + 3 * hit.intent_score) \div 10
  /\ hit.score = hit.combined_score
  /\ 0 <= hit.keyword_score /\ hit.keyword_score <= 2 * Unit
  /\ hit.combined_score * 10 >= cfg.min_score_threshold * Unit
Ranked(cfg, hits) ==
  /\ \A i \in DOMAIN hits : Fused(cfg, hits[i])
  /\ \A i \in 1..(Len(hits) - 1) : hits[i].combined_score >= hits[i + 1].combined_score
\* C23: every hit rerank_results returns has combined_score = semantic_weight *
\* original score + keyword_weight * keyword score + 0.3 * intent score with the
\* keyword score in [0, 2.0] and the original score the one it was passed with; the
\* returned hits reach min_score_threshold and are in non-increasing combined_score
\* order; smart_search returns at most k of them and repeats no chunk_id.
C23_ScoreFusion ==
  /\ res.op = "rerank_results" =>
       /\ Ranked(res.config, res.out)
       /\ \A j \in DOMAIN res.out : \E i \in DOMAIN res.given :
             /\ res.given[i].chunk_id = res.out[j].chunk_id
             /\ res.given[i].score = res.out[j].original_score
  /\ res.op = "smart_search" =>
       /\ Ranked(res.config, res.out)
       /\ Len(res.out) <= res.k
       /\ \A i, j \in DOMAIN res.out : res.out[i].chunk_id = res.out[j].chunk_id => i = j
\* rerank_results returned two hits in the reverse of the order they were passed in
C23_Witness ==
  /\ res.op = "rerank_results" /\ Len(res.given) = 2 /\ Len(res.out) = 2
  /\ res.out[1].chunk_id = res.given[2].chunk_id
  /\ res.out[1].combined_score > res.out[2].combined_score
\* smart_search found one chunk under two expanded queries and returned it once
C23_WitnessSmart ==
  /\ res.op = "smart_search" /\ Len(res.found) > 1
  /\ res.found[1] # <<>> /\ res.found[2] # <<>>
  /\ res.found[1][1].chunk_id = res.found[2][1].chunk_id
  /\ Len(res.out) = 1
\* a hit passed the intent filter and was cut by min_score_threshold
C23_WitnessThreshold ==
  /\ res.op = "rerank_results" /\ Len(res.filtered) > Len(res.out)

\* C24: calling rerank_results twice with the same query, the same hit set and the
\* same configuration returns the same hits with the same scores in the same order.
C24_RerankDeterministic ==
  [][(res.op = "rerank_results" /\ res'.op = "rerank_results"
        /\ res'.query = res.query /\ res'.config = res.config)
       => res'.out = res.out]_vars

ValidConfig(cfg) ==
  /\ 0 <= cfg.semantic_weight /\ cfg.semantic_weight <= 10
  /\ 0 <= cfg.keyword_weight /\ cfg.keyword_weight <= 10
  /\ cfg.min_score_threshold >= 0
\* C25: a configuration whose semantic_weight or keyword_weight lies outside [0,1] or
\* whose min_score_threshold is negative is rejected when it is created; no search is
\* run with such a configuration.
C25_ConfigValidated ==
  res.op \in {"rerank_results", "smart_search"} => ValidConfig(res.config)

\* the entries of the cache get_assistant found that were still valid at its call
ValidBefore == _cleanup_expired(res.before, cache_ttl_minutes, res.at)
\* the entries of other clients that the last get_assistant dropped for capacity
EvictedForCapacity ==
  {i \in 1..Len(ValidBefore) :
     /\ ValidBefore[i].client_id # res.client_id
     /\ ~InCache(assistants_cache, ValidBefore[i].client_id)}
\* C26: the number of cached assistants never exceeds max_assistants, whatever
\* get_assistant, remove_assistant, clear_all_cache and update_assistant_settings
\* calls were made, and an entry evicted for capacity is one with the oldest
\* last_accessed time
C26_BoundedCapacity ==
  /\ Len(assistants_cache) <= max_assistants
  /\ res.op = "get_assistant" =>
       \A i \in EvictedForCapacity : \A j \in 1..Len(ValidBefore) :
          ValidBefore[i].last_accessed <= ValidBefore[j].last_accessed

\* the last call was get_assistant without force_reload for a client whose entry
\* had not expired, made on a manager of positive capacity
HadValidEntry ==
  /\ res.op = "get_assistant"
  /\ ~res.force_reload
  /\ max_assistants >= 1
  /\ InCache(res.before, res.client_id)
  /\ _is_cache_valid(EntryOf(res.before, res.client_id), cache_ttl_minutes, res.at)
\* C27: get_assistant without force_reload returns the cached instance whenever the
\* client has an entry whose TTL has not expired, in every cache state; a new
\* assistant is created only when the client has no valid entry
C27_CachedInstanceReturned ==
  HadValidEntry =>
    /\ ~res.created
    /\ res.out = EntryOf(res.before, res.client_id).assistant

InListActiveAssistants(t) ==
  calls[t] # <<>> /\ calls[t][1].op = "list_active_assistants"
\* C28: every call of list_active_assistants returns, and the manager lock, once
\* taken, is released again
C28_CallsReturnAndRelease ==
  /\ \A t \in Threads : InListActiveAssistants(t) ~> (calls[t] = <<>>)
  /\ (lock # 0) ~> (lock = 0)

OneToOne(m) == \A i, j \in DOMAIN m : m[i] = m[j] => i = j
DistinctChunks(hits) ==
  \A i, j \in DOMAIN hits : hits[i].chunk_id = hits[j].chunk_id => i = j
\* C29: after any sequence of adds (re-adding a stored chunk_id included) and
\* removes, each chunk_id is the image of at most one offset in each
\* offset -> chunk_id mapping, and no search result lists a chunk_id twice
C29_MappingsOneToOne ==
  /\ OneToOne(id_to_chunk_id)
  /\ OneToOne(text_id_to_chunk_id)
  /\ OneToOne(visual_id_to_chunk_id)
  /\ res.op \in {"search", "search_text", "search_visual"} => DistinctChunks(res.out)

\* the chunk has a visual vector in the visual index
HasVisualVector(c) ==
  /\ c \in DOMAIN metadata
  /\ get_visual_vector(Mem, c) # None
\* every visual hit for the chunk's own vector, the chunk itself left out
AllSimilar(c) ==
  OtherChunks(search_visual(Mem, Val(get_visual_vector(Mem, c)),
                            ntotal(Val(visual_index)), 0), c)
\* out is what similar_to(c, k) is specified to return
SimilarAsSpecified(c, k, out) ==
  /\ Len(out) <= k
  /\ c \notin HitIds(out)
  /\ out = Truncated(AllSimilar(c), k)
  /\ out = <<>> => \A c2 \in ChunkIds \ {c} : ~HasVisualVector(c2)
\* C30: for an indexed chunk that has a visual vector, get_similar_visual_chunks, also
\* when reached through get_similar_to_existing with the name of the indexed file,
\* returns the visual hits for the chunk's reconstructed vector: at most k, never the
\* chunk itself, and none only when no other visual vector is indexed
C30_SimilarTo ==
  /\ (res.op = "get_similar_visual_chunks" /\ HasVisualVector(res.chunk_id))
       => SimilarAsSpecified(res.chunk_id, res.k, res.out)
  /\ (/\ res.op = "get_similar_to_existing"
      /\ dp_enable_visual_search
      /\ \E c \in ChunkIds : HasVisualVector(c) /\ ChunkSource(c) = res.source_file)
       => \E c \in ChunkIds :
            /\ HasVisualVector(c)
            /\ ChunkSource(c) = res.source_file
            /\ SimilarAsSpecified(c, res.k, res.out)

====
